---- MODULE Spec2Model ----
(***************************************************************************)
(* A model of three pieces of the DaCe repository:                         *)
(*   - dace/libraries/blas/nodes/matmul.py: get_batchmm_opts,              *)
(*     MatMul.validate (batch detection and the validation contract) and   *)
(*     the expansions of MatMul (pure, MKL, cuBLAS);                       *)
(*   - dace/transformation/dataflow/map_fission.py: MapFission             *)
(*     (can_be_applied and apply on a map scope or a map around one        *)
(*     nested SDFG);                                                       *)
(*   - dace/transformation/interstate/fpga_global_to_local.py:             *)
(*     FPGAGlobalToLocal.apply on an SDFG with one nested SDFG.            *)
(* Python exceptions are modelled as outcome strings ("ValueError",        *)
(* "IndexError", "UnboundLocalError", "StopIteration"); a dictionary       *)
(* is a set of <<key, value>> pairs; None is the value None.               *)
(***************************************************************************)
EXTENDS Integers, Sequences, FiniteSets, TLC

VARIABLES
    bmm_in,      \* get_batchmm_opts: the arguments [a, b, c] (descriptors)
    bmm_out,     \* get_batchmm_opts: what the call returned or raised
    arrays,      \* MatMul: sdfg.arrays, name -> descriptor
    in_edges,    \* MatMul: state.in_edges(node), in the state's order
    out_edges,   \* MatMul: state.out_edges(node)
    vres,        \* MatMul: outcome of node.validate(sdfg, state)
    vres2,       \* MatMul: outcome of a second call of node.validate
    mm_node,     \* MatMul: the node's implementation, dtype; the layout's swap flag
    storage,     \* MatMul: the storage of the arrays, name -> storage
    strategy,    \* MatMul: the expansion class selected for the node
    xres,        \* MatMul: what the expansion returned or raised
    mm_before,   \* MatMul: arrays and edges as they were before any call
    ev,          \* pure expansion: the generated SDFG, its buffers, the run so far
    fp_sdfgs,    \* FPGAGlobalToLocal: the SDFG (1) and its nested SDFG (2)
    fp_count,    \* FPGAGlobalToLocal: the count apply arrived at
    fp_pc,       \* FPGAGlobalToLocal: "idle", "matched" or "applied"
    fp_before,   \* FPGAGlobalToLocal: the SDFGs as they were before apply
    expr_index,  \* MapFission: the pattern matched, 0 (map) or 1 (map + nested SDFG)
    graph,       \* MapFission: the state that holds the matched map
    other_states,\* MapFission: the other states of the SDFG
    sdfg_arrays, \* MapFission: sdfg.arrays
    nstates,     \* MapFission: the states of the nested SDFG (pattern 1)
    nsdfg_arrays,\* MapFission: nsdfg_node.sdfg.arrays (pattern 1)
    pc,          \* MapFission: "matched", "rejected", "accepted", "applied", "raised"
    exc,         \* MapFission: the exception apply ended with, or ""
    matched      \* MapFission: the candidate as it was matched

evvars == <<ev>>
fpvars == <<fp_sdfgs, fp_count, fp_pc, fp_before>>
mmvars == <<arrays, in_edges, out_edges, vres, vres2, mm_node, storage,
            strategy, xres, mm_before>>
bmmvars == <<bmm_in, bmm_out>>
mfvars == <<expr_index, graph, other_states, sdfg_arrays, nstates,
            nsdfg_arrays, pc, exc, matched>>
vars == <<bmm_in, bmm_out, arrays, in_edges, out_edges, vres, vres2, mm_node,
          storage, strategy, xres, mm_before, ev, fp_sdfgs, fp_count, fp_pc,
          fp_before, expr_index, graph, other_states,
          sdfg_arrays, nstates, nsdfg_arrays, pc, exc, matched>>

----------------------------------------------------------------------------
(* Bounds of the model. *)

\* Largest leading (batch) dimension of a tensor.
MaxBatch == 2
\* Largest size of a matrix dimension (rows, columns).
MaxDim == 2
\* Largest number of edges entering the MatMul node.
MaxIn == 3
\* Largest number of edges leaving the MatMul node.
MaxOut == 2
\* Largest number of items in the pipeline of a map scope or nested state.
MaxItems == 3
\* Largest number of parameters of the map to fission.
MaxParams == 2
\* Largest number of rows or columns of a matrix the generated SDFG is run on.
MaxMat == 3
\* Largest absolute value of an entry of such a matrix.
MaxVal == 1

----------------------------------------------------------------------------
(* Python values. *)

\* None where the code holds an integer (a dimension is never negative).
None == -1
NotCalled == [raised |-> FALSE, err |-> "not called", value |-> {}]

RECURSIVE Prod(_)
Prod(s) == IF s = <<>> THEN 1 ELSE Head(s) * Prod(Tail(s))

\* Array.strides of a contiguous row-major array of this shape.
Strides(shape) ==
    [i \in 1..Len(shape) |-> Prod(SubSeq(shape, i + 1, Len(shape)))]

\* dace.data.Array: the fields the modelled code reads.
Desc(shape) == [shape |-> shape, strides |-> Strides(shape)]

\* None where the code holds a descriptor (an array has at least one dimension).
NoArray == [shape |-> <<>>, strides |-> <<>>]

\* d[key] of a dictionary held as a set of <<key, value>> pairs.
Get(d, key) == (CHOOSE kv \in d : kv[1] = key)[2]

\* A Python truth test of an integer-or-None local (`if batch and ...`).
Truthy(x) == x # None /\ x # 0

\* `batch and batch != x.shape[0]` (matmul.py lines 58 and 63).
BatchDiffers(batch, dim) == Truthy(batch) /\ batch # dim

\* The rank guard of get_batchmm_opts (line 46).
TooLarge(a, b, c) ==
    \/ Len(a.shape) > 3
    \/ Len(b.shape) > 3
    \/ (c # NoArray /\ Len(c.shape) > 3)

\* The mutant of NotBatched: `<` written for `<=`.
NotBatchedStrict(a, b) == Len(a.shape) < 2 /\ Len(b.shape) < 2

\* The unbatched early return of get_batchmm_opts (line 49).
NotBatched(a, b) == Len(a.shape) <= 2 /\ Len(b.shape) <= 2

Raise(err) == [raised |-> TRUE, err |-> err, value |-> {}]
Return(v) == [raised |-> FALSE, err |-> "", value |-> v]

\* get_batchmm_opts(a, b, c): a raised error or the returned dictionary.
get_batchmm_opts(a, b, c) ==
    IF TooLarge(a, b, c) THEN Raise("ValueError")
    ELSE IF NotBatched(a, b) THEN Return({})
    ELSE
      LET a3 == Len(a.shape) = 3
          b3 == Len(b.shape) = 3
          c3 == c # NoArray /\ Len(c.shape) = 3
          batch1 == IF a3 THEN a.shape[1] ELSE None
          stride_a == IF a3 THEN a.strides[1] ELSE 0
          raise_b == b3 /\ BatchDiffers(batch1, b.shape[1])
          batch2 == IF b3 THEN b.shape[1] ELSE batch1
          stride_b == IF b3 THEN b.strides[1] ELSE 0
          raise_c == c3 /\ BatchDiffers(batch2, c.shape[1])
          batch3 == IF c3 THEN c.shape[1] ELSE batch2
          stride_c == IF c3 THEN c.strides[1] ELSE 0
      IN  IF raise_b \/ raise_c THEN Raise("ValueError")
          ELSE IF batch3 = None THEN Return({})
          ELSE Return({<<"sa", stride_a>>, <<"sb", stride_b>>,
                       <<"sc", stride_c>>, <<"b", batch3>>})

----------------------------------------------------------------------------
(* MatMul.validate. *)

\* subsets.Range.size(): the number of indices of each <<start, end, step>>.
Size(subset) ==
    [i \in 1..Len(subset) |->
        (subset[i][2] - subset[i][1] + subset[i][3]) \div subset[i][3]]

\* subsets.Range.squeeze(): the ranges of size 1 are removed.
Squeeze(subset) ==
    LET sz == Size(subset)
        RECURSIVE keep(_)
        keep(i) == IF i > Len(subset) THEN <<>>
                   ELSE IF sz[i] # 1 THEN <<subset[i]>> \o keep(i + 1)
                   ELSE keep(i + 1)
    IN  keep(1)

\* subsets.Range.from_array(desc): the whole array.
FromArray(desc) == [i \in 1..Len(desc.shape) |-> <<0, desc.shape[i] - 1, 1>>]

\* A local variable that no statement has assigned.
Unbound == <<-1>>

\* s[-k] of a Python list.
Neg(s, k) == s[Len(s) - k + 1]

Max(S) == CHOOSE x \in S : \A y \in S : y <= x

\* size0 / size1 after the loop over the in-edges (lines 348-356): the
\* squeezed size of the last edge on the connector, if there is one.
InputSize(edges, conn) ==
    LET on == { i \in 1..Len(edges) : edges[i].dst_conn = conn }
    IN  IF on = {} THEN Unbound
        ELSE Size(Squeeze(edges[Max(on)].memlet.subset))

\* Lines 365-371: without a batch both inputs must be matrices.
RankCheck(bopt, size0, size1) ==
    IF bopt # {} THEN "ok"
    ELSE IF size0 = Unbound THEN "UnboundLocalError"
    ELSE IF Len(size0) # 2 THEN "ValueError"
    ELSE IF size1 = Unbound THEN "UnboundLocalError"
    ELSE IF Len(size1) # 2 THEN "ValueError"
    ELSE "ok"

\* Lines 372-375: size0[-1] != size1[-2].
KCheck(size0, size1) ==
    IF size0 = Unbound THEN "UnboundLocalError"
    ELSE IF Len(size0) < 1 THEN "IndexError"
    ELSE IF size1 = Unbound THEN "UnboundLocalError"
    ELSE IF Len(size1) < 2 THEN "IndexError"
    ELSE IF Neg(size0, 1) # Neg(size1, 2) THEN "ValueError"
    ELSE "ok"

\* The mutant of OutCheck: the batched output is compared without its
\* batch dimension.
OutCheckNoBatch(bopt, size0, size1, size2) ==
    IF Len(size2) \notin {2, 3} THEN "ValueError"
    ELSE IF Len(size0) < 2 THEN "IndexError"
    ELSE IF bopt = {} /\ size2 # <<Neg(size0, 2), Neg(size1, 1)>>
        THEN "ValueError"
    ELSE IF bopt # {} /\ SubSeq(size2, Len(size2) - 1, Len(size2))
                            # <<Neg(size0, 2), Neg(size1, 1)>>
        THEN "ValueError"
    ELSE "ok"

\* Lines 376-389: the squeezed output size against [b?, m, n]. Both list
\* displays index size0[-2] first (size1[-1] exists once KCheck passed).
OutCheck(bopt, size0, size1, size2) ==
    IF Len(size2) \notin {2, 3} THEN "ValueError"
    ELSE IF Len(size0) < 2 THEN "IndexError"
    ELSE IF bopt = {} /\ size2 # <<Neg(size0, 2), Neg(size1, 1)>>
        THEN "ValueError"
    ELSE IF bopt # {} /\ size2 # <<Get(bopt, "b"), Neg(size0, 2), Neg(size1, 1)>>
        THEN "ValueError"
    ELSE "ok"

\* MatMul.validate(sdfg, state): "pass", or the exception it ends with.
validate(ins, outs, arrs) ==
    IF Len(ins) # 2 THEN "ValueError"
    ELSE IF Len(outs) # 1 THEN "ValueError"
    ELSE
      LET size0 == InputSize(ins, "_a")
          size1 == InputSize(ins, "_b")
          r == get_batchmm_opts(arrs[ins[1].memlet.data],
                                arrs[ins[2].memlet.data],
                                arrs[outs[1].memlet.data])
          size2 == Size(Squeeze(outs[1].memlet.subset))
          rank == RankCheck(r.value, size0, size1)
          kdim == KCheck(size0, size1)
          out == OutCheck(r.value, size0, size1, size2)
      IN  IF r.raised THEN r.err
          ELSE IF rank # "ok" THEN rank
          ELSE IF kdim # "ok" THEN kdim
          ELSE IF out # "ok" THEN out
          ELSE "pass"

\* The variant of ValidateLeaves in which validate squeezes the subsets of
\* the memlets themselves, not copies of them.
ValidateSqueezesInPlace(ins, outs) ==
    [ins |-> [i \in DOMAIN ins |->
                 IF ins[i].dst_conn \in {"_a", "_b"} /\ Len(ins) = 2
                 THEN [ins[i] EXCEPT !.memlet.subset = Squeeze(@)]
                 ELSE ins[i]],
     outs |-> outs]

\* The edges of the node as validate leaves them: every squeeze is done on
\* a deep copy of the subset (lines 350-351, 354-355, 376-377), so the
\* memlets are what they were.
ValidateLeaves(ins, outs) == [ins |-> ins, outs |-> outs]

----------------------------------------------------------------------------
(* The expansions of MatMul and the choice among them. *)

\* The expansion classes in the order the module defines them, each with
\* the line of its class statement; ExpandMatMulMKL is defined twice.
Classes ==
    << [name |-> "ExpandMatMulPure", line |-> 75],
       [name |-> "ExpandMatMulMKL", line |-> 140],
       [name |-> "ExpandMatMulMKL", line |-> 177],
       [name |-> "ExpandMatMulCuBLAS", line |-> 214] >>

\* The class a name is bound to when MatMul is defined: the last definition
\* of that name.
Bound(name) ==
    Classes[Max({ i \in 1..Len(Classes) : Classes[i].name = name })]

\* MatMul.implementations (lines 326-330).
implementations ==
    [n \in {"pure", "MKL", "cuBLAS"} |->
        Bound(CASE n = "pure" -> "ExpandMatMulPure"
                [] n = "MKL" -> "ExpandMatMulMKL"
                [] n = "cuBLAS" -> "ExpandMatMulCuBLAS")]

\* None where the code holds a name or a class.
NoName == "None"
NoClass == [name |-> "None", line |-> 0]

\* MatMul.default_implementation (line 331).
default_implementation == NoName

\* The class the operator itself offers for a node: the implementation set
\* on the node or else the default of the operator, looked up in
\* implementations; no class where neither names one.
Selected(implementation) ==
    LET name == IF implementation # NoName THEN implementation
                ELSE default_implementation
    IN  IF name \in DOMAIN implementations THEN implementations[name]
        ELSE NoClass

\* _get_matmul_inputs(node, state, sdfg): (size[-2], size[-1]) of the
\* squeezed subset of the last edge on "_a" and on "_b".
_get_matmul_inputs(ins) ==
    LET on == { i \in 1..Len(ins) : ins[i].dst_conn \in {"_a", "_b"} }
        size(i) == Size(Squeeze(ins[i].memlet.subset))
        last(conn) == Max({ i \in on : ins[i].dst_conn = conn })
    IN  IF \E i \in on : Len(size(i)) < 2
            THEN [exc |-> "IndexError", a |-> <<>>, b |-> <<>>]
        ELSE IF \E conn \in {"_a", "_b"} : \A i \in on : ins[i].dst_conn # conn
            THEN [exc |-> "ValueError", a |-> <<>>, b |-> <<>>]
        ELSE [exc |-> "",
              a |-> <<Neg(size(last("_a")), 2), Neg(size(last("_a")), 1)>>,
              b |-> <<Neg(size(last("_b")), 2), Neg(size(last("_b")), 1)>>]

\* The outer array behind the last edge on a connector.
OuterArrayOf(ins, conn) ==
    ins[Max({ i \in 1..Len(ins) : ins[i].dst_conn = conn })].memlet.data

\* What an expansion hands back: the exception it ended with ("" for
\* none), the arrays and the map of a generated SDFG, or the native call of
\* a generated tasklet.
Failed(e) == [exc |-> e, kind |-> "none", shapes |-> <<>>, map |-> <<>>,
              call |-> <<>>]
MadeSDFG(shapes, map) ==
    [exc |-> "", kind |-> "sdfg", shapes |-> shapes, map |-> map,
     call |-> <<>>]
MadeTasklet(call) ==
    [exc |-> "", kind |-> "tasklet", shapes |-> <<>>, map |-> <<>>,
     call |-> call]
NotExpanded == Failed("not called")

\* ExpandMatMulPure.make_sdfg: the arrays _a, _b, _c of the new SDFG and
\* the sizes of the map over __i0, __i1, __i2 (lines 85-123).
make_sdfg(ins, stor) ==
    LET r == _get_matmul_inputs(ins)
    IN  IF r.exc # "" THEN Failed(r.exc)
        ELSE IF r.a[2] # r.b[1] THEN Failed("SyntaxError")
        ELSE IF stor[OuterArrayOf(ins, "_a")] # stor[OuterArrayOf(ins, "_b")]
            THEN Failed("ValueError")
        ELSE MadeSDFG([_a |-> r.a, _b |-> r.b, _c |-> <<r.a[1], r.b[2]>>],
                      <<r.a[1], r.b[2], r.a[2]>>)

\* ExpandMatMulPure.expansion(node, state, sdfg).
ExpandMatMulPure(nd, ins, outs, arrs, stor) ==
    LET v == validate(ins, outs, arrs)
    IN  IF v # "pass" THEN Failed(v)
        ELSE IF nd.dtype = NoName THEN Failed("ValueError")
        ELSE make_sdfg(ins, stor)

\* A native call: the routine, whether it is the strided-batched variant,
\* the operands x and y, the sizes M, N, K, and with a batch the strides of
\* x, y and c and the batch count.
Call(func, batched, x, y, M, N, K, strides, batch) ==
    [func |-> func, batched |-> batched, x |-> x, y |-> y, M |-> M, N |-> N,
     K |-> K, strides |-> strides, batch |-> batch]

\* ExpandMatMulMKL.expansion (the definition in force, lines 176-210):
\* dtype.type of a node without dtype is an AttributeError.
ExpandMatMulMKL(nd, ins, outs, arrs) ==
    LET v == validate(ins, outs, arrs)
        r == _get_matmul_inputs(ins)
    IN  IF v # "pass" THEN Failed(v)
        ELSE IF nd.dtype = NoName THEN Failed("AttributeError")
        ELSE IF r.exc # "" THEN Failed(r.exc)
        ELSE MadeTasklet(Call("cblas_gemm", FALSE, "_a", "_b",
                              r.a[1], r.b[2], r.a[2], <<>>, None))

\* Lines 268-310: the call for the options of the layout (swap) and of the
\* batch (bopt).
CuBLASCall(swap, bopt, m, n, k) ==
    LET sa == IF swap THEN Get(bopt, "sb") ELSE Get(bopt, "sa")
        sb == IF swap THEN Get(bopt, "sa") ELSE Get(bopt, "sb")
        x == IF swap THEN "_b" ELSE "_a"
        y == IF swap THEN "_a" ELSE "_b"
        M == IF swap THEN n ELSE m
        N == IF swap THEN m ELSE n
    IN  IF bopt = {}
        THEN Call("cublas_gemm", FALSE, x, y, M, N, k, <<>>, None)
        ELSE Call("cublas_gemmStridedBatched", TRUE, x, y, M, N, k,
                  <<sa, sb, Get(bopt, "sc")>>, Get(bopt, "b"))

\* ExpandMatMulCuBLAS.expansion: the descriptors are those of the arrays
\* behind "_a", "_b" and "_c" (lines 246-262); nd.swap is opt['swap'] of
\* get_gemm_opts.
ExpandMatMulCuBLAS(nd, ins, outs, arrs) ==
    LET v == validate(ins, outs, arrs)
        r == _get_matmul_inputs(ins)
        bopt == get_batchmm_opts(arrs[OuterArrayOf(ins, "_a")],
                                 arrs[OuterArrayOf(ins, "_b")],
                                 arrs[outs[1].memlet.data])
    IN  IF v # "pass" THEN Failed(v)
        ELSE IF nd.dtype = NoName THEN Failed("AttributeError")
        ELSE IF outs[1].src_conn # "_c" THEN Failed("ValueError")
        ELSE IF r.exc # "" THEN Failed(r.exc)
        ELSE IF bopt.raised THEN Failed(bopt.err)
        ELSE MadeTasklet(CuBLASCall(nd.swap, bopt.value, r.a[1], r.b[2], r.a[2]))

\* The expansion of the selected class, run on the node.
expansion(class, nd, ins, outs, arrs, stor) ==
    CASE class.name = "ExpandMatMulPure" ->
            ExpandMatMulPure(nd, ins, outs, arrs, stor)
      [] class.name = "ExpandMatMulMKL" ->
            ExpandMatMulMKL(nd, ins, outs, arrs)
      [] class.name = "ExpandMatMulCuBLAS" ->
            ExpandMatMulCuBLAS(nd, ins, outs, arrs)

----------------------------------------------------------------------------
(* The SDFG that ExpandMatMulPure.make_sdfg builds, and a run of it. *)

\* The parameters of the map, in the order of lines 109-111; a memlet index
\* names a parameter by its place in this list.
MapParams == <<"__i0", "__i1", "__i2">>

\* The memlets of the tasklet (lines 113-114, 117-119): the array and the
\* map parameters that index it.
TaskletReads ==
    [c \in {"__a", "__b"} |->
        IF c = "__a" THEN [data |-> "_a", index |-> <<1, 3>>]
        ELSE [data |-> "_b", index |-> <<3, 2>>]]
TaskletWrite == [data |-> "_c", index |-> <<1, 2>>]

\* The tasklet '__c = __a * __b'.
Tasklet(a, b) == a * b

\* The variant of wcr in which the written value replaces the old one.
wcr_overwrite(x, y) == y

\* wcr_str 'lambda x, y: x + y' and wcr_identity (lines 120-121).
wcr(x, y) == x + y
wcr_identity == 0

\* A buffer of a shape, indexed from 0, every element v.
Filled(shape, v) == [i \in 0..(shape[1] - 1) |-> [j \in 0..(shape[2] - 1) |-> v]]

\* The element of a buffer a memlet points at in the iteration idx.
At(buf, index, idx) == buf[idx[index[1]]][idx[index[2]]]

\* Iteration t of the map, counted from 0, when the parameters nest in
\* the order given (outermost first): the value of each parameter.
IterationAt(sizes, order, t) ==
    [p \in 1..3 |->
        IF p = order[3] THEN t % sizes[p]
        ELSE IF p = order[2] THEN (t \div sizes[order[3]]) % sizes[p]
        ELSE t \div (sizes[order[3]] * sizes[order[2]])]

\* One iteration of the mapped tasklet on the buffers: reads through the
\* in-memlets, the tasklet, the write through the out-memlet with conflict
\* resolution.
RunIteration(bufs, idx) ==
    LET a == At(bufs[TaskletReads["__a"].data], TaskletReads["__a"].index, idx)
        b == At(bufs[TaskletReads["__b"].data], TaskletReads["__b"].index, idx)
        i == idx[TaskletWrite.index[1]]
        j == idx[TaskletWrite.index[2]]
        old == bufs[TaskletWrite.data][i][j]
    IN  [bufs EXCEPT ![TaskletWrite.data][i][j] = wcr(old, Tasklet(a, b))]

----------------------------------------------------------------------------
(* FPGAGlobalToLocal.apply. *)

\* dtypes.StorageType, as far as the transformation names it.
FPGA_Global == "FPGA_Global"
FPGA_Local == "FPGA_Local"

\* A total size: a number, or a symbol (value unused).
Constant(v) == [symbol |-> "", value |-> v]
Symbol(name) == [symbol |-> name, value |-> 0]

\* A data descriptor as the transformation and its callers see it.
Data(transient, stor, total_size) ==
    [transient |-> transient, storage |-> stor, total_size |-> total_size,
     shape |-> <<total_size>>, strides |-> <<1>>, dtype |-> "float32"]

\* An SDFG: the names of its arrays in the order of the dictionary, its
\* arrays by name, its constants, the names sd.shared_transients() returns,
\* the data of its access nodes, and for an array of a nested SDFG the data
\* of the outer node that trace_nested_access reports for its access nodes
\* in the parent ("" where it reports none).
SDFG(names, arrs, constants, shared, nodes, outer) ==
    [names |-> names, arrays |-> arrs, constants |-> constants,
     shared |-> shared, nodes |-> nodes, outer |-> outer]

\* symbolic.resolve_symbol_to_constant(total_size, sdfg): the number
\* itself, the value of a symbol among the constants of sdfg, else None.
resolve_symbol_to_constant(total_size, sdfg) ==
    IF total_size.symbol = "" THEN total_size.value
    ELSE IF total_size.symbol \in DOMAIN sdfg.constants
        THEN sdfg.constants[total_size.symbol]
    ELSE None

\* sdfg.arrays_recursive(): <<index of the SDFG, name>>, the arrays of the
\* SDFG before those of the nested SDFG.
arrays_recursive(sdfgs) ==
    LET of(i) == [k \in 1..Len(sdfgs[i].names) |-> <<i, sdfgs[i].names[k]>>]
    IN  of(1) \o of(2)

\* The variant of Reclassifiable that does not ask whether the transient
\* is shared.
ReclassifiableShared(sdfgs, i, name) ==
    LET desc == sdfgs[i].arrays[name]
    IN  /\ desc.transient
        /\ desc.storage = FPGA_Global
        /\ resolve_symbol_to_constant(desc.total_size, sdfgs[1]) # None

\* Lines 46-53: the tests a descriptor has to pass; the size is resolved
\* against the SDFG apply was called on.
Reclassifiable(sdfgs, i, name) ==
    LET desc == sdfgs[i].arrays[name]
    IN  /\ desc.transient
        /\ name \notin sdfgs[i].shared
        /\ desc.storage = FPGA_Global
        /\ resolve_symbol_to_constant(desc.total_size, sdfgs[1]) # None

\* Lines 58-73: the descriptors of the access nodes below SDFG i that refer
\* to the container name of SDFG i become FPGA_Local.
UpdateAccessNodes(sdfgs, i, name) ==
    IF i # 1 THEN sdfgs
    ELSE [sdfgs EXCEPT ![2].arrays =
            [x \in DOMAIN @ |->
                IF x \in sdfgs[2].nodes /\ sdfgs[2].outer[x] = name
                THEN [@[x] EXCEPT !.storage = FPGA_Local]
                ELSE @[x]]]

\* The variant of Reclassify that also marks the descriptor as not
\* transient.
ReclassifyAndPin(sdfgs, i, name) ==
    [sdfgs EXCEPT ![i].arrays[name].storage = FPGA_Local,
                  ![i].arrays[name].transient = FALSE]

\* Line 54: desc.storage = dtypes.StorageType.FPGA_Local.
Reclassify(sdfgs, i, name) ==
    [sdfgs EXCEPT ![i].arrays[name].storage = FPGA_Local]

\* Lines 45-73, from the k-th descriptor on: the SDFGs and the count at
\* the end of the loop.
RECURSIVE GlobalToLocal(_, _, _, _)
GlobalToLocal(sdfgs, count, todo, k) ==
    IF k > Len(todo) THEN [sdfgs |-> sdfgs, count |-> count]
    ELSE LET i == todo[k][1]
             name == todo[k][2]
         IN  IF Reclassifiable(sdfgs, i, name)
             THEN GlobalToLocal(
                      UpdateAccessNodes(Reclassify(sdfgs, i, name), i, name),
                      count + 1, todo, k + 1)
             ELSE GlobalToLocal(sdfgs, count, todo, k + 1)

\* FPGAGlobalToLocal.apply(sdfg).
fpga_apply(sdfgs) == GlobalToLocal(sdfgs, 0, arrays_recursive(sdfgs), 1)

----------------------------------------------------------------------------
(* The dataflow graph of a state: nodes, edges with memlets, map scopes. *)

\* A connector is <<prefix, name>>: IN_x is <<"IN", x>>, OUT_x is
\* <<"OUT", x>>, a plain connector x is <<"", x>> and None is NoConn.
NoConn == <<"", "">>

\* nodes.Map: what MapFission reads of it.
Map(label, params, range, schedule, unroll) ==
    [label |-> label, params |-> params, range |-> range,
     schedule |-> schedule, unroll |-> unroll]

\* A node: kind is "access", "tasklet", "nsdfg", "entry" or "exit"; data is
\* the array of an access node; mapid is the Map of an entry/exit pair.
Node(kind, data, mapid) == [kind |-> kind, data |-> data, mapid |-> mapid]

\* An edge with its memlet (data "" is the EmptyMemlet).
Edge(id, src, src_conn, dst, dst_conn, data, subset) ==
    [id |-> id, src |-> src, src_conn |-> src_conn, dst |-> dst,
     dst_conn |-> dst_conn, data |-> data, subset |-> subset]

EmptyGraph == [nodes |-> <<>>, edges |-> {}, maps |-> <<>>]

NodeIds(G) == DOMAIN G.nodes
Kind(G, n) == G.nodes[n].kind
InEdgesOf(G, n) == { e \in G.edges : e.dst = n }
OutEdgesOf(G, n) == { e \in G.edges : e.src = n }
AllEdgesOf(G, n) == InEdgesOf(G, n) \cup OutEdgesOf(G, n)

IsAccess(G, n) == Kind(G, n) = "access"
\* isinstance(n, nodes.CodeNode): tasklets and nested SDFGs.
IsCode(G, n) == Kind(G, n) \in {"tasklet", "nsdfg"}
IsEntry(G, n) == Kind(G, n) = "entry"

\* The entry node of an exit node, and graph.exit_nodes(entry)[0].
EntryOf(G, x) ==
    CHOOSE n \in NodeIds(G) : IsEntry(G, n) /\ G.nodes[n].mapid = G.nodes[x].mapid
ExitOf(G, n) ==
    CHOOSE x \in NodeIds(G) :
        Kind(G, x) = "exit" /\ G.nodes[x].mapid = G.nodes[n].mapid

\* scope_dict()[n]: the entry node of the innermost scope around n, 0 for
\* None. An exit node belongs to its entry; any other node has the scope
\* its predecessors put it in.
RECURSIVE ScopeOf(_, _)
ScopeOf(G, n) ==
    IF Kind(G, n) = "exit" THEN EntryOf(G, n)
    ELSE IF InEdgesOf(G, n) = {} THEN 0
    ELSE LET p == (CHOOSE e \in InEdgesOf(G, n) : TRUE).src
         IN  IF IsEntry(G, p) THEN p
             ELSE IF Kind(G, p) = "exit" THEN ScopeOf(G, EntryOf(G, p))
             ELSE ScopeOf(G, p)

\* Whether n lies in the scope of entry, at any depth.
RECURSIVE InScope(_, _, _)
InScope(G, n, entry) ==
    LET s == ScopeOf(G, n)
    IN  s # 0 /\ (s = entry \/ InScope(G, s, entry))

\* A subgraph the transformation inspects: the nodes ns of graph g; a whole
\* state (is_state) or the view of a scope.
View(G, ns, is_state) == [g |-> G, ns |-> ns, is_state |-> is_state]

\* graph.scope_subgraph(entry, include_entry=False, include_exit=False).
ScopeSubgraph(G, entry) ==
    View(G, { n \in NodeIds(G) : InScope(G, n, entry) /\ n # ExitOf(G, entry) },
         FALSE)

StateView(G) == View(G, NodeIds(G), TRUE)

\* subgraph.in_edges(n) / out_edges(n): the edges inside the subgraph.
SubIn(sg, n) == { e \in InEdgesOf(sg.g, n) : e.src \in sg.ns }
SubOut(sg, n) == { e \in OutEdgesOf(sg.g, n) : e.dst \in sg.ns }

source_nodes(sg) == { n \in sg.ns : SubIn(sg, n) = {} }
sink_nodes(sg) == { n \in sg.ns : SubOut(sg, n) = {} }

\* subgraph.scope_dict(node_to_children=True)[None]: the nodes of the
\* subgraph that no scope inside the subgraph encloses.
TopLevel(sg) == { n \in sg.ns : ScopeOf(sg.g, n) \notin sg.ns }

\* The elements of a set of numbers, in increasing order.
RECURSIVE Sorted(_)
Sorted(S) ==
    IF S = {} THEN <<>>
    ELSE LET m == CHOOSE x \in S : \A y \in S : x <= y
         IN  <<m>> \o Sorted(S \ {m})

Range(f) == { f[i] : i \in DOMAIN f }

----------------------------------------------------------------------------
(* MapFission: the helpers and can_be_applied. *)

\* MapFission._components: the <<input node, output node>> pairs of the
\* top-level code nodes and scopes of the subgraph.
_components(sg) ==
    LET top == { n \in TopLevel(sg) : IsCode(sg.g, n) \/ IsEntry(sg.g, n) }
        ids == Sorted(top)
    IN  [i \in 1..Len(ids) |->
            IF IsEntry(sg.g, ids[i]) THEN <<ids[i], ExitOf(sg.g, ids[i])>>
            ELSE <<ids[i], ids[i]>>]

\* MapFission._border_arrays.
_border_arrays(components, sg, sources, sinks) ==
    LET use_sources_sinks == ~sg.is_state
        ins == { e.src : e \in UNION { SubIn(sg, c[1]) : c \in Range(components) } }
        outs == { e.dst : e \in UNION { SubOut(sg, c[2]) : c \in Range(components) } }
    IN  { sg.g.nodes[n].data :
            n \in { x \in ins : IsAccess(sg.g, x)
                                 /\ (use_sources_sinks \/ x \notin sources) } }
        \cup
        { sg.g.nodes[n].data :
            n \in { x \in outs : IsAccess(sg.g, x)
                                  /\ (use_sources_sinks \/ x \notin sinks) } }

\* MapFission._internal_border_arrays.
_internal_border_arrays(components, sg) ==
    LET ins == { e.src : e \in UNION { SubIn(sg, c[1]) : c \in Range(components) } }
        outs == { e.dst : e \in UNION { SubOut(sg, c[2]) : c \in Range(components) } }
        inputs == { sg.g.nodes[n].data : n \in { x \in ins : IsAccess(sg.g, x) } }
        outputs == { sg.g.nodes[n].data : n \in { x \in outs : IsAccess(sg.g, x) } }
    IN  inputs \cap outputs

\* The matched nodes: every candidate graph holds the map entry as node 2,
\* its exit as node 3 and, in the second pattern, the nested SDFG as node 5.
MapEntry == 2
MapExit == 3
NsdfgNode == 5

\* sd.has_dynamic_map_inputs: an edge enters the map on a connector that
\* is not an IN_ connector.
has_dynamic_map_inputs(G, entry) ==
    \E e \in InEdgesOf(G, entry) : e.dst_conn # NoConn /\ e.dst_conn[1] # "IN"

\* The subgraphs to inspect (lines 126-136, 204-214): the scope of the map,
\* or the states of the nested SDFG.
Subgraphs(W) ==
    IF W.expr_index = 0 THEN << ScopeSubgraph(W.graph, MapEntry) >>
    ELSE [i \in 1..Len(W.nstates) |-> StateView(W.nstates[i])]

\* The mutant of FewComponents: a single component is enough.
FewComponentsNone(sg) ==
    Cardinality(sg.ns) > 0 /\ Len(_components(sg)) < 1

\* Line 145: the subgraph has nodes and at most one component.
FewComponents(sg) ==
    Cardinality(sg.ns) > 0 /\ Len(_components(sg)) <= 1

\* Lines 150-160: a border array that is not both read and written by the
\* components.
HasExternalArrays(sg) ==
    LET comps == _components(sg)
    IN  _border_arrays(comps, sg, source_nodes(sg), sink_nodes(sg))
            \ _internal_border_arrays(comps, sg) # {}

\* Lines 164-171: a border array that is not transient.
HasNonTransientBorder(W, sg) ==
    LET parent == IF W.expr_index = 0 THEN W.sdfg_arrays ELSE W.nsdfg_arrays
    IN  \E a \in _border_arrays(_components(sg), sg, source_nodes(sg),
                                 sink_nodes(sg)) :
            ~parent[a].transient

\* The data of the access nodes of a graph that are not in a set of nodes.
AccessedOutside(G, ns) ==
    { G.nodes[n].data : n \in { x \in NodeIds(G) \ ns : IsAccess(G, x) } }

\* Lines 175-188: in the first pattern, an array written by a component is
\* accessed outside the subgraph or in another state.
UsedElsewhere(W, sg) ==
    /\ W.expr_index = 0
    /\ LET not_subgraph ==
               AccessedOutside(W.graph, sg.ns)
                   \cup UNION { AccessedOutside(W.other_states[i], {}) :
                                   i \in 1..Len(W.other_states) }
           comps == _components(sg)
       IN  \E c \in Range(comps) : \E e \in SubOut(sg, c[2]) :
               IsAccess(sg.g, e.dst) /\ sg.g.nodes[e.dst].data \in not_subgraph

\* MapFission.can_be_applied(graph, candidate, expr_index, sdfg).
can_be_applied(W) ==
    IF has_dynamic_map_inputs(W.graph, MapEntry) THEN FALSE
    ELSE IF W.expr_index = 1
            /\ Cardinality({ e.dst : e \in OutEdgesOf(W.graph, MapEntry) }) > 1
        THEN FALSE
    ELSE \A i \in 1..Len(Subgraphs(W)) :
            LET sg == Subgraphs(W)[i]
            IN  /\ ~FewComponents(sg)
                /\ ~HasExternalArrays(sg)
                /\ ~HasNonTransientBorder(W, sg)
                /\ ~UsedElsewhere(W, sg)

----------------------------------------------------------------------------
(* MapFission.apply: the state it rewrites, step by step. *)

IsExit(G, n) == Kind(G, n) = "exit"

\* A value the code keeps in a local variable: worked out once, then read.
With(v, F(_)) == CHOOSE y \in { F(x) : x \in {v} } : TRUE

\* The names of the map parameters.
ParamNames == <<"i", "j", "k">>

\* The symbol of a map parameter inside a memlet subset, held as a number
\* that no index or size of the candidates reaches.
Sym(name) == 100 * (CHOOSE k \in 1..Len(ParamNames) : ParamNames[k] = name)

\* data.Array: shape, strides, total size, offset and the transient flag.
ArrayDesc(transient, shape) ==
    [transient |-> transient, shape |-> shape, strides |-> Strides(shape),
     total_size |-> Prod(shape), offset |-> [i \in 1..Len(shape) |-> 0]]

\* A node, edge or map identifier the graph does not hold yet.
FreshNode(G) == Max(NodeIds(G) \cup {0}) + 1
FreshEdge(G) == Max({ e.id : e \in G.edges } \cup {0}) + 1
FreshMap(G) == Max(DOMAIN G.maps \cup {0}) + 1

\* state.add_node, state.add_edge, state.remove_edge.
add_node(G, id, node) == [G EXCEPT !.nodes = (id :> node) @@ @]
add_edge(G, src, src_conn, dst, dst_conn, data, subset) ==
    [G EXCEPT !.edges =
        @ \cup { Edge(FreshEdge(G), src, src_conn, dst, dst_conn, data, subset) }]
remove_edge(G, e) == [G EXCEPT !.edges = @ \ {e}]

\* graph.remove_nodes_from(ns): the nodes go with their edges and maps.
remove_nodes_from(G, ns) ==
    [nodes |-> [n \in NodeIds(G) \ ns |-> G.nodes[n]],
     edges |-> { e \in G.edges : e.src \notin ns /\ e.dst \notin ns },
     maps |-> [m \in { G.nodes[n].mapid : n \in { x \in NodeIds(G) \ ns :
                          Kind(G, x) \in {"entry", "exit"} } } |-> G.maps[m]]]

\* A set of edges as the list the graph returns them in.
EdgesInOrder(S) ==
    LET ids == Sorted({ e.id : e \in S })
    IN  [i \in 1..Len(ids) |-> CHOOSE e \in S : e.id = ids[i]]

\* The part of state.memlet_path(edge) before the edge and after it: the
\* path follows OUT_x back to IN_x through scope nodes, and IN_x on to OUT_x.
RECURSIVE PathBefore(_, _)
PathBefore(G, e) ==
    IF Kind(G, e.src) \in {"entry", "exit"} /\ e.src_conn # NoConn
    THEN LET up == { x \in InEdgesOf(G, e.src) :
                        x.dst_conn = <<"IN", e.src_conn[2]>> }
         IN  IF up = {} THEN <<>>
             ELSE LET x == CHOOSE y \in up : TRUE
                  IN  PathBefore(G, x) \o <<x>>
    ELSE <<>>

RECURSIVE PathAfter(_, _)
PathAfter(G, e) ==
    IF Kind(G, e.dst) \in {"entry", "exit"} /\ e.dst_conn # NoConn
    THEN LET down == { x \in OutEdgesOf(G, e.dst) :
                          x.src_conn = <<"OUT", e.dst_conn[2]>> }
         IN  IF down = {} THEN <<>>
             ELSE LET x == CHOOSE y \in down : TRUE
                  IN  <<x>> \o PathAfter(G, x)
    ELSE <<>>

\* path[eindex - 1] of lines 231-233: the edge before this one on its path;
\* index -1 of a Python list is its last element.
OuterOfIn(G, e) ==
    LET before == PathBefore(G, e)
        path == before \o <<e>> \o PathAfter(G, e)
    IN  IF before = <<>> THEN path[Len(path)] ELSE before[Len(before)]

\* path[eindex + 1] of lines 244-246 exists.
HasOuterOfOut(G, e) == PathAfter(G, e) # <<>>
OuterOfOut(G, e) == PathAfter(G, e)[1]

\* Lines 226-252: edge_to_outer, keyed by the edge (first pattern) or by
\* the access node (second pattern); exc is the exception a lookup raised.
edge_to_outer(W, st, sources, sinks) ==
    IF W.expr_index = 0
    THEN LET ins == UNION { InEdgesOf(st, n) : n \in sources }
             outs == UNION { OutEdgesOf(st, n) : n \in sinks }
         IN  IF \E e \in outs : ~HasOuterOfOut(st, e)
             THEN [exc |-> "IndexError", at |-> <<>>]
             ELSE [exc |-> "",
                   at |-> [k \in { e.id : e \in ins \cup outs } |->
                            IF \E e \in ins : e.id = k
                            THEN OuterOfIn(st, CHOOSE e \in ins : e.id = k)
                            ELSE OuterOfOut(st, CHOOSE e \in outs : e.id = k)]]
    ELSE LET srcs == { n \in sources : IsAccess(st, n) }
             snks == { n \in sinks : IsAccess(st, n) }
             into(n) == { e \in InEdgesOf(W.graph, NsdfgNode) :
                            e.dst_conn = <<"", st.nodes[n].data>> }
             from(n) == { e \in OutEdgesOf(W.graph, NsdfgNode) :
                            e.src_conn = <<"", st.nodes[n].data>> }
         IN  IF \/ \E n \in srcs : into(n) = {}
                \/ \E n \in snks : from(n) = {}
             THEN [exc |-> "StopIteration", at |-> <<>>]
             ELSE [exc |-> "",
                   at |-> [n \in srcs \cup snks |->
                            IF n \in snks THEN CHOOSE e \in from(n) : TRUE
                            ELSE CHOOSE e \in into(n) : TRUE]]

\* The names parent.add_temp_transient gives out, in turn.
TmpNames == <<"__tmp0", "__tmp1", "__tmp2", "__tmp3">>
NewTmpName(arrs) == TmpNames[Cardinality(DOMAIN arrs \cap Range(TmpNames)) + 1]

\* subsets.Range.from_string(','.join(params)).
ParamSubset(params) ==
    [i \in 1..Len(params) |-> <<Sym(params[i]), Sym(params[i]), 1>>]

\* Lines 275-289: an access node of the new array takes the place of a
\* code -> code edge.
SplitEdge(G, e, name, params) ==
    LET anode == FreshNode(G)
        G1 == add_node(G, anode, Node("access", name, 0))
        G2 == add_edge(G1, e.src, e.src_conn, anode, NoConn, name,
                       ParamSubset(params))
        G3 == add_edge(G2, anode, NoConn, e.dst, e.dst_conn, name,
                       ParamSubset(params))
    IN  remove_edge(G3, e)

\* Lines 257-289: every array that travels a code -> code edge gets a new
\* transient of the size of the map, and an access node on each such edge.
RECURSIVE SplitScalars(_, _, _, _, _)
SplitScalars(st, arrs, edges, params, mapsize) ==
    IF edges = {} THEN [st |-> st, arrs |-> arrs]
    ELSE LET first == CHOOSE e \in edges : \A x \in edges : e.id <= x.id
             same == EdgesInOrder({ e \in edges : e.data = first.data })
             name == NewTmpName(arrs)
             RECURSIVE split(_, _)
             split(g, i) == IF i > Len(same) THEN g
                            ELSE split(SplitEdge(g, same[i], name, params), i + 1)
         IN  SplitScalars(split(st, 1),
                          (name :> ArrayDesc(TRUE, mapsize)) @@ arrs,
                          { e \in edges : e.data # first.data }, params, mapsize)

\* The code -> code edges that leave the components (lines 258-261).
ScalarEdges(sg, components) ==
    { e \in UNION { SubOut(sg, c[2]) : c \in Range(components) } :
        IsCode(sg.g, e.dst) }

\* The mutant of NewMap: the range '0:1' add_map was given stays (line 306
\* left out).
NewMapUnitRange(outer_map) ==
    Map(outer_map.label \o <<"_fission">>, outer_map.params,
        [i \in 1..Len(outer_map.params) |-> <<0, 0, 1>>],
        outer_map.schedule, outer_map.unroll)

\* Lines 294-306: the map of a new scope, with the label, parameters,
\* schedule and unroll of the outer map and a copy of its range.
NewMap(outer_map) ==
    Map(outer_map.label \o <<"_fission">>, outer_map.params, outer_map.range,
        outer_map.schedule, outer_map.unroll)

\* Lines 310-324: the edges into a component go through the new entry me;
\* those of a source component start at the node outside the outer map.
RECURSIVE ThroughEntry(_, _, _, _, _, _)
ThroughEntry(G, edges, i, me, is_source, outer) ==
    IF i > Len(edges) THEN G
    ELSE LET e == edges[i]
             o == outer[e.id]
             G1 == add_edge(G, me, NoConn, e.dst, e.dst_conn, e.data, e.subset)
             G2 == IF is_source
                   THEN add_edge(G1, o.src, o.src_conn, me, NoConn, o.data,
                                 o.subset)
                   ELSE add_edge(G1, e.src, e.src_conn, me, NoConn, e.data,
                                 e.subset)
         IN  ThroughEntry(remove_edge(G2, e), edges, i + 1, me, is_source, outer)

\* Lines 326-340: the edges out of a component go through the new exit mx.
RECURSIVE ThroughExit(_, _, _, _, _, _)
ThroughExit(G, edges, i, mx, is_sink, outer) ==
    IF i > Len(edges) THEN G
    ELSE LET e == edges[i]
             o == outer[e.id]
             G1 == add_edge(G, e.src, e.src_conn, mx, NoConn, e.data, e.subset)
             G2 == IF is_sink
                   THEN add_edge(G1, mx, NoConn, o.dst, o.dst_conn, o.data,
                                 o.subset)
                   ELSE add_edge(G1, mx, NoConn, e.dst, e.dst_conn, e.data,
                                 e.subset)
         IN  ThroughExit(remove_edge(G2, e), edges, i + 1, mx, is_sink, outer)

\* Lines 293-340 for one component: a new map scope around it. No connector
\* of the outer entry is dynamic (can_be_applied, line 123), so lines
\* 302-304 add none.
AddMapAround(G, c, sources, sinks, outer, outer_map) ==
    With(FreshNode(G), LAMBDA me :
    With(FreshNode(G) + 1, LAMBDA mx :
    With(FreshMap(G), LAMBDA m :
    With([add_node(add_node(G, me, Node("entry", "", m)),
                   mx, Node("exit", "", m))
             EXCEPT !.maps = (m :> NewMap(outer_map)) @@ @], LAMBDA G1 :
    With(ThroughEntry(G1, EdgesInOrder(InEdgesOf(G1, c[1])), 1, me,
                      c[1] \in sources, outer), LAMBDA G2 :
    With(IF InEdgesOf(G2, c[1]) = {}
         THEN add_edge(G2, me, NoConn, c[1], NoConn, "", <<>>)
         ELSE G2, LAMBDA G3 :
    With(ThroughExit(G3, EdgesInOrder(OutEdgesOf(G3, c[2])), 1, mx,
                     c[2] \in sinks, outer), LAMBDA G4 :
         IF OutEdgesOf(G4, c[2]) = {}
         THEN add_edge(G4, c[2], NoConn, mx, NoConn, "", <<>>)
         ELSE G4)))))))

\* Lines 292-340: the components get their maps in turn.
RECURSIVE AddMaps(_, _, _, _, _, _, _)
AddMaps(G, components, i, sources, sinks, outer, outer_map) ==
    IF i > Len(components) THEN G
    ELSE AddMaps(AddMapAround(G, components[i], sources, sinks, outer, outer_map),
                 components, i + 1, sources, sinks, outer, outer_map)

\* Lines 343-351: the access nodes that are sources take their data from
\* the node outside the outer map, over the whole range of the map.
RECURSIVE ConnectSources(_, _, _, _, _)
ConnectSources(G, edges, i, outer, range) ==
    IF i > Len(edges) THEN G
    ELSE LET e == edges[i]
             o == outer[e.id]
         IN  ConnectSources(add_edge(G, o.src, o.src_conn, e.dst, e.dst_conn,
                                     e.data, range \o e.subset),
                            edges, i + 1, outer, range)

\* Lines 353-359: the access nodes that are sinks hand their data to the
\* node outside the outer map.
RECURSIVE ConnectSinks(_, _, _, _)
ConnectSinks(G, edges, i, outer) ==
    IF i > Len(edges) THEN G
    ELSE LET e == edges[i]
             o == outer[e.id]
         IN  ConnectSinks(add_edge(G, e.src, e.src_conn, o.dst, o.dst_conn,
                                   o.data, o.subset),
                          edges, i + 1, outer)

\* Lines 343-359; an edge edge_to_outer does not hold is a KeyError.
ConnectAccessNodes(G, sources, sinks, outer, outer_map) ==
    LET ins == UNION { InEdgesOf(G, n) : n \in { x \in sources : IsAccess(G, x) } }
        outs == UNION { OutEdgesOf(G, n) : n \in { x \in sinks : IsAccess(G, x) } }
        G1 == ConnectSources(G, EdgesInOrder(ins), 1, outer, outer_map.range)
    IN  IF \E e \in ins \cup outs : e.id \notin DOMAIN outer
        THEN [exc |-> "KeyError", st |-> G]
        ELSE [exc |-> "", st |-> ConnectSinks(G1, EdgesInOrder(outs), 1, outer)]

\* Lines 363-369 for one descriptor: the sizes of the map come before its
\* shape, strides and offset.
RECURSIVE GrowStrides(_, _, _)
GrowStrides(desc, mapsize, i) ==
    IF i = 0 THEN desc
    ELSE GrowStrides([desc EXCEPT !.strides = <<desc.total_size>> \o @,
                                  !.total_size = @ * mapsize[i]],
                     mapsize, i - 1)

Augment(desc, mapsize) ==
    [GrowStrides(desc, mapsize, Len(mapsize))
        EXCEPT !.shape = mapsize \o @,
               !.offset = [i \in 1..Len(mapsize) |-> 0] \o @]

\* Lines 362-369: the border arrays of the subgraph are augmented.
AugmentArrays(arrs, border, mapsize) ==
    [a \in DOMAIN arrs |->
        IF a \in border THEN Augment(arrs[a], mapsize) ELSE arrs[a]]

\* state.fill_scope_connectors(): an edge without a connector at a scope
\* node gets the connector of its data, IN_ on entering and OUT_ on leaving;
\* the inner side of a scope node is left alone when the memlet is empty.
FillEdge(G, e) ==
    LET dk == Kind(G, e.dst)
        sk == Kind(G, e.src)
    IN  [e EXCEPT
            !.dst_conn = IF /\ @ = NoConn
                            /\ (dk = "entry" \/ (dk = "exit" /\ e.data # ""))
                         THEN <<"IN", e.data>> ELSE @,
            !.src_conn = IF /\ @ = NoConn
                            /\ (sk = "exit" \/ (sk = "entry" /\ e.data # ""))
                         THEN <<"OUT", e.data>> ELSE @]

\* An inner edge whose data no outer edge of its scope node carries: the
\* lookup of its connector is a KeyError.
Unmatched(G) ==
    \E e \in G.edges :
        \/ /\ IsEntry(G, e.src) /\ e.src_conn = NoConn /\ e.data # ""
           /\ \A x \in InEdgesOf(G, e.src) : x.data # e.data
        \/ /\ IsExit(G, e.dst) /\ e.dst_conn = NoConn /\ e.data # ""
           /\ \A x \in OutEdgesOf(G, e.dst) : x.data # e.data

fill_scope_connectors(G) ==
    IF Unmatched(G) THEN [exc |-> "KeyError", st |-> G]
    ELSE [exc |-> "", st |-> [G EXCEPT !.edges = { FillEdge(G, e) : e \in @ }]]

\* state.memlet_tree(edge): whether the tree runs forward from a scope
\* entry or backward from a scope exit (neither or both: the edge alone).
TreeForward(G, e) ==
    \/ IsEntry(G, e.src) /\ e.src_conn # NoConn
    \/ IsEntry(G, e.dst) /\ e.dst_conn # NoConn
TreeBackward(G, e) ==
    \/ IsExit(G, e.src) /\ e.src_conn # NoConn
    \/ IsExit(G, e.dst) /\ e.dst_conn # NoConn

\* The root of the tree of an edge, or no edge where a connector of a
\* scope node has no edge on its other side.
RECURSIVE TreeRoot(_, _, _)
TreeRoot(G, e, forward) ==
    IF forward /\ IsEntry(G, e.src) /\ e.src_conn # NoConn
    THEN UNION { TreeRoot(G, x, forward) :
                    x \in { y \in InEdgesOf(G, e.src) :
                              y.dst_conn = <<"IN", e.src_conn[2]>> } }
    ELSE IF ~forward /\ IsExit(G, e.dst) /\ e.dst_conn # NoConn
    THEN UNION { TreeRoot(G, x, forward) :
                    x \in { y \in OutEdgesOf(G, e.dst) :
                              y.src_conn = <<"OUT", e.dst_conn[2]>> } }
    ELSE {e}

\* An edge of the tree with the edges below it.
RECURSIVE TreeBelow(_, _, _)
TreeBelow(G, e, forward) ==
    {e} \cup
    IF forward /\ IsEntry(G, e.dst)
    THEN UNION { TreeBelow(G, x, forward) :
                    x \in { y \in OutEdgesOf(G, e.dst) :
                              y.src_conn = <<"OUT", e.dst_conn[2]>> } }
    ELSE IF ~forward /\ IsExit(G, e.src)
    THEN UNION { TreeBelow(G, x, forward) :
                    x \in { y \in InEdgesOf(G, e.src) :
                              y.dst_conn = <<"IN", e.src_conn[2]>> } }
    ELSE {}

\* The search for the root of the tree fails (StopIteration).
TreeBroken(G, e) ==
    /\ TreeForward(G, e) # TreeBackward(G, e)
    /\ TreeRoot(G, e, TreeForward(G, e)) = {}

\* The edges that iterating state.memlet_tree(edge) yields.
memlet_tree(G, e) ==
    IF TreeForward(G, e) = TreeBackward(G, e) THEN {e}
    ELSE UNION { TreeBelow(G, r, TreeForward(G, e)) :
                    r \in TreeRoot(G, e, TreeForward(G, e)) }

\* How often the loops "for edge in state.all_edges(node): for e in
\* state.memlet_tree(edge)" over the nodes ns come by the edge e.
Visits(G, ns, e) ==
    Cardinality({ p \in UNION { { <<n, x>> : x \in AllEdgesOf(G, n) } : n \in ns } :
                    e \in memlet_tree(G, p[2]) })

\* subset.offset(other, False), k times: the minimum of other is added.
OffsetBy(subset, other, k) ==
    IF k = 0 THEN subset
    ELSE
    [i \in 1..Len(subset) |->
        <<subset[i][1] + k * other[i][1], subset[i][2] + k * other[i][1],
          subset[i][3]>>]

\* Lines 378-397: a source or sink access node of a nested state takes the
\* shape of the outer array behind its connector, and the memlets of its
\* trees move by the subset of the outer edge.
RECURSIVE CorrectNested(_, _, _, _, _, _, _)
CorrectNested(W, G, arrs, nodes, i, outer, modified) ==
    IF i > Len(nodes) THEN [exc |-> "", st |-> G, arrs |-> arrs]
    ELSE LET n == nodes[i]
             o == outer[n]
             name == G.nodes[n].data
             outer_desc == W.sdfg_arrays[o.data]
             arrs1 == IF name \in modified THEN arrs
                      ELSE [arrs EXCEPT ![name].shape = outer_desc.shape,
                                        ![name].strides = outer_desc.strides,
                                        ![name].total_size = outer_desc.total_size]
             G1 == [G EXCEPT !.edges =
                      { [e EXCEPT !.subset = OffsetBy(@, o.subset, Visits(G, {n}, e))] :
                          e \in @ }]
         IN  IF o.data \notin DOMAIN W.sdfg_arrays
             THEN [exc |-> "KeyError", st |-> G, arrs |-> arrs]
             ELSE IF \E x \in AllEdgesOf(G, n) : TreeBroken(G, x)
             THEN [exc |-> "StopIteration", st |-> G, arrs |-> arrs1]
             ELSE IF \E e \in G.edges :
                        Visits(G, {n}, e) > 0 /\ Len(e.subset) > Len(o.subset)
             THEN [exc |-> "IndexError", st |-> G, arrs |-> arrs1]
             ELSE CorrectNested(W, G1, arrs1, nodes, i + 1, outer,
                                modified \cup {name})

\* Lines 406-408, k times: (d, d, 1) for each parameter of the outer map
\* before the ranges of the subset.
RECURSIVE Prepended(_, _, _)
Prepended(subset, params, k) ==
    IF k = 0 THEN subset
    ELSE Prepended(ParamSubset(params) \o subset, params, k - 1)

\* Lines 401-408: the memlet trees at the access nodes of the border arrays.
PrependTrees(G, ns, border, params) ==
    LET at == { n \in ns \cap NodeIds(G) :
                  IsAccess(G, n) /\ G.nodes[n].data \in border }
    IN  IF \E n \in at : \E x \in AllEdgesOf(G, n) : TreeBroken(G, x)
        THEN [exc |-> "StopIteration", st |-> G]
        ELSE [exc |-> "",
              st |-> [G EXCEPT !.edges =
                        { [e EXCEPT !.subset = Prepended(@, params, Visits(G, at, e))] :
                            e \in @ }]]

\* The outer map of the candidate, and mapsize (line 218).
OuterMapOf(W) == W.graph.maps[W.graph.nodes[MapEntry].mapid]

\* The access nodes among the sources and the sinks, as lines 378-379 go
\* through them.
SourceSinkAccess(st, sources, sinks) ==
    Sorted({ n \in sources : IsAccess(st, n) })
        \o Sorted({ n \in sinks : IsAccess(st, n) })

\* Lines 254-408, once edge_to_outer is there: the new arrays, the new
\* maps, the augmented arrays and the corrected memlets.
Rewrite(W, st, sg, arrs, components, sources, sinks, outer) ==
    With(OuterMapOf(W), LAMBDA outer_map :
    With(Size(outer_map.range), LAMBDA mapsize :
    With(_border_arrays(components, sg, sources, sinks), LAMBDA border :
    With(SplitScalars(st, arrs, ScalarEdges(sg, components), outer_map.params,
                      mapsize), LAMBDA split :
    With(AddMaps(split.st, components, 1, sources, sinks, outer, outer_map),
         LAMBDA mapped :
    With(ConnectAccessNodes(mapped, sources, sinks, outer, outer_map),
         LAMBDA connected :
    With(AugmentArrays(split.arrs, border, mapsize), LAMBDA augmented :
    With(fill_scope_connectors(connected.st), LAMBDA filled :
    With(IF W.expr_index = 1
         THEN CorrectNested(W, filled.st, augmented,
                            SourceSinkAccess(st, sources, sinks), 1, outer, {})
         ELSE [exc |-> "", st |-> filled.st, arrs |-> augmented],
         LAMBDA corrected :
    With(PrependTrees(corrected.st,
                      IF sg.is_state THEN NodeIds(corrected.st) ELSE sg.ns,
                      border, outer_map.params), LAMBDA prepended :
         IF connected.exc # ""
         THEN [exc |-> connected.exc, st |-> mapped, arrs |-> split.arrs]
         ELSE IF filled.exc # ""
         THEN [exc |-> filled.exc, st |-> connected.st, arrs |-> augmented]
         ELSE IF corrected.exc # "" THEN corrected
         ELSE [exc |-> prepended.exc, st |-> prepended.st,
               arrs |-> corrected.arrs]))))))))))

\* Lines 221-408: one pass of the loop over the subgraphs. st is the state
\* the subgraph sg lies in, arrs the arrays of its parent; the result holds
\* the exception raised, if any, and what the pass left of st and arrs.
FissionState(W, st, sg, arrs) ==
    With(_components(sg), LAMBDA components :
    With(source_nodes(sg), LAMBDA sources :
    With(sink_nodes(sg), LAMBDA sinks :
    With(edge_to_outer(W, st, sources, sinks), LAMBDA outer :
         IF outer.exc # "" THEN [exc |-> outer.exc, st |-> st, arrs |-> arrs]
         ELSE Rewrite(W, st, sg, arrs, components, sources, sinks, outer.at)))))

\* Lines 412-425: an array that entered the map now enters the nested SDFG
\* whole, on the connector the map passed it to.
RECURSIVE ReconnectInputs(_, _, _, _)
ReconnectInputs(W, G, edges, i) ==
    IF i > Len(edges) THEN [exc |-> "", st |-> G]
    ELSE LET e == edges[i]
             inner == { x \in OutEdgesOf(G, MapEntry) :
                          x.src_conn # NoConn /\ x.src_conn[2] = e.dst_conn[2] }
             whole == [e EXCEPT !.subset = FromArray(W.sdfg_arrays[e.data])]
             G1 == [G EXCEPT !.edges = (@ \ {e}) \cup {whole}]
         IN  IF e.data \notin DOMAIN W.sdfg_arrays
             THEN [exc |-> "KeyError", st |-> G]
             ELSE IF inner = {} THEN [exc |-> "StopIteration", st |-> G1]
             ELSE ReconnectInputs(W,
                      add_edge(G1, e.src, e.src_conn, NsdfgNode,
                               (CHOOSE x \in inner : TRUE).dst_conn, e.data,
                               whole.subset),
                      edges, i + 1)

\* Lines 427-437: an array that left the map now leaves the nested SDFG.
RECURSIVE ReconnectOutputs(_, _, _, _)
ReconnectOutputs(W, G, edges, i) ==
    IF i > Len(edges) THEN [exc |-> "", st |-> G]
    ELSE LET e == edges[i]
             inner == { x \in InEdgesOf(G, MapExit) :
                          x.dst_conn[2] = e.src_conn[2] }
             whole == [e EXCEPT !.subset = FromArray(W.sdfg_arrays[e.data])]
             G1 == [G EXCEPT !.edges = (@ \ {e}) \cup {whole}]
         IN  IF e.data \notin DOMAIN W.sdfg_arrays
             THEN [exc |-> "KeyError", st |-> G]
             ELSE IF inner = {} THEN [exc |-> "StopIteration", st |-> G1]
             ELSE ReconnectOutputs(W,
                      add_edge(G1, NsdfgNode,
                               (CHOOSE x \in inner : TRUE).src_conn, e.dst,
                               e.dst_conn, e.data, whole.subset),
                      edges, i + 1)

\* Lines 411-437.
Reconnect(W) ==
    LET ins == ReconnectInputs(W, W.graph,
                   EdgesInOrder({ e \in InEdgesOf(W.graph, MapEntry) :
                                    e.dst_conn[1] = "IN" }), 1)
    IN  IF ins.exc # "" THEN ins
        ELSE ReconnectOutputs(W, ins.st,
                              EdgesInOrder(OutEdgesOf(ins.st, MapExit)), 1)

\* The loop of line 220 over the states of the nested SDFG, from state i.
RECURSIVE NestedStates(_, _)
NestedStates(W, i) ==
    IF i > Len(W.nstates) THEN [exc |-> "", w |-> W]
    ELSE With(FissionState(W, W.nstates[i], StateView(W.nstates[i]),
                           W.nsdfg_arrays), LAMBDA r :
         With([W EXCEPT !.nstates[i] = r.st, !.nsdfg_arrays = r.arrs],
              LAMBDA W1 :
              IF r.exc # "" THEN [exc |-> r.exc, w |-> W1]
              ELSE NestedStates(W1, i + 1)))

\* Line 440: the outer map leaves the graph.
RemoveOuterMap(W) ==
    [W EXCEPT !.graph = remove_nodes_from(@, {MapEntry, MapExit})]

\* MapFission.apply(sdfg): the exception it ends with ("" for none) and the
\* candidate as it leaves it.
apply(W) ==
    IF W.expr_index = 0
    THEN With(FissionState(W, W.graph, ScopeSubgraph(W.graph, MapEntry),
                           W.sdfg_arrays), LAMBDA r :
         With([W EXCEPT !.graph = r.st, !.sdfg_arrays = r.arrs], LAMBDA W1 :
              IF r.exc # "" THEN [exc |-> r.exc, w |-> W1]
              ELSE [exc |-> "", w |-> RemoveOuterMap(W1)]))
    ELSE With(NestedStates(W, 1), LAMBDA r :
              IF r.exc # "" THEN r
              ELSE With(Reconnect(r.w), LAMBDA j :
                        IF j.exc # ""
                        THEN [exc |-> j.exc, w |-> [r.w EXCEPT !.graph = j.st]]
                        ELSE [exc |-> "",
                              w |-> RemoveOuterMap([r.w EXCEPT !.graph = j.st])]))

----------------------------------------------------------------------------
(* The candidates of MapFission the checks draw from: a map whose scope   *)
(* holds a pipeline of tasklets ("t"), nested maps around one tasklet     *)
(* ("m") and access nodes of the arrays X and Y ("X", "Y"), each item     *)
(* feeding the next; or a map around one nested SDFG whose states are     *)
(* such pipelines.                                                        *)

\* The arrays of the graph that owns X, Y and the scalar s (transient),
\* with the arrays of the outer graph (not transient).
ArraysOf(tX, tY) ==
    [n \in {"X", "Y", "s", "In", "Out", "OX", "OY"} |->
        CASE n = "X" -> ArrayDesc(tX, <<4>>)
          [] n = "Y" -> ArrayDesc(tY, <<4>>)
          [] n = "s" -> ArrayDesc(TRUE, <<1>>)
          [] OTHER -> ArrayDesc(FALSE, <<4>>)]

\* The map to fission: parameter p ranges over 0..p. A label is held as
\* the sequence of its parts.
OuterMap(np) ==
    Map(<<"map">>, SubSeq(ParamNames, 1, np), [p \in 1..np |-> <<0, p, 1>>],
        "GPU_Device", TRUE)

InnerMap == Map(<<"inner">>, <<"q">>, << <<0, 1, 1>> >>, "Sequential", FALSE)

\* The subset of a memlet that moves one element, the element a map
\* iteration hands to the nested SDFG, and a whole array.
Elem == << <<0, 0, 1>> >>
Point == << <<Sym("i"), Sym("i"), 1>> >>
Whole == << <<0, 3, 1>> >>

\* The nodes of item i of a pipeline: one node, or entry, tasklet, exit.
ItemBase(i) == 10 + 3 * (i - 1)
ItemIn(items, i) == ItemBase(i)
ItemOut(items, i) == IF items[i] = "m" THEN ItemBase(i) + 2 ELSE ItemBase(i)

ItemNodes(items, i) ==
    CASE items[i] = "t" -> ItemBase(i) :> Node("tasklet", "", 0)
      [] items[i] = "m" ->
            (ItemBase(i) :> Node("entry", "", 10 + i))
            @@ (ItemBase(i) + 1 :> Node("tasklet", "", 0))
            @@ (ItemBase(i) + 2 :> Node("exit", "", 10 + i))
      [] OTHER -> ItemBase(i) :> Node("access", items[i], 0)

IsData(item) == item \in {"X", "Y"}

\* The memlet data on the edge from item i to item i + 1: the array of the
\* access node at either end, or the scalar s between two code nodes.
LinkData(items, i) ==
    IF IsData(items[i]) THEN items[i]
    ELSE IF IsData(items[i + 1]) THEN items[i + 1]
    ELSE "s"

\* The connector of an edge at an item: None at an access node, a named
\* connector at a tasklet, IN_/OUT_ at a nested map.
ConnAt(item, side, data) ==
    CASE item = "t" -> <<"", side>>
      [] item = "m" -> <<(IF side = "in" THEN "IN" ELSE "OUT"), data>>
      [] OTHER -> NoConn

\* The data entering item i and leaving it; at the ends of the pipeline
\* the arrays first and last.
DataInto(items, i, first) == IF i = 1 THEN first ELSE LinkData(items, i - 1)
DataFrom(items, i, last) ==
    IF i = Len(items) THEN last ELSE LinkData(items, i)

PipeNodes(items) ==
    LET RECURSIVE upto(_)
        upto(i) == IF i = 0 THEN <<>> ELSE ItemNodes(items, i) @@ upto(i - 1)
    IN  upto(Len(items))

\* The edges between the items, and inside the nested maps.
PipeEdges(items, first, last) ==
    { Edge(100 + i, ItemOut(items, i),
           ConnAt(items[i], "out", LinkData(items, i)),
           ItemIn(items, i + 1),
           ConnAt(items[i + 1], "in", LinkData(items, i)),
           LinkData(items, i), Elem) : i \in 1..(Len(items) - 1) }
    \cup
    { Edge(200 + i, ItemBase(i), <<"OUT", DataInto(items, i, first)>>,
           ItemBase(i) + 1, <<"", "in">>, DataInto(items, i, first), Elem) :
        i \in { j \in 1..Len(items) : items[j] = "m" } }
    \cup
    { Edge(300 + i, ItemBase(i) + 1, <<"", "out">>,
           ItemBase(i) + 2, <<"IN", DataFrom(items, i, last)>>,
           DataFrom(items, i, last), Elem) :
        i \in { j \in 1..Len(items) : items[j] = "m" } }

PipeMaps(items) ==
    LET RECURSIVE upto(_)
        upto(i) == IF i = 0 THEN <<>>
                   ELSE IF items[i] = "m" THEN (10 + i :> InnerMap) @@ upto(i - 1)
                   ELSE upto(i - 1)
    IN  upto(Len(items))

\* A state of the nested SDFG: the pipeline alone.
NestedState(items) ==
    [nodes |-> PipeNodes(items), edges |-> PipeEdges(items, "", ""),
     maps |-> PipeMaps(items)]

\* The state with the map (first pattern): the array In enters the map and
\* feeds the first item, the last item leaves through the exit to Out.
\* outside adds an access node of X beside the map; dyn feeds the map a
\* dynamic range input.
ScopeState(items, np, outside, dyn) ==
    LET n == Len(items)
    IN  [nodes |->
            (1 :> Node("access", "In", 0)) @@ (MapEntry :> Node("entry", "", 1))
            @@ (MapExit :> Node("exit", "", 1)) @@ (4 :> Node("access", "Out", 0))
            @@ (IF outside THEN 6 :> Node("access", "X", 0) ELSE <<>>)
            @@ PipeNodes(items),
         edges |->
            PipeEdges(items, "In", "Out")
            \cup (IF n = 0
                  THEN { Edge(2, MapEntry, NoConn, MapExit, NoConn, "", <<>>) }
                  ELSE { Edge(1, 1, NoConn, MapEntry, <<"IN", "In">>, "In", Whole),
                         Edge(2, MapEntry, <<"OUT", "In">>, ItemIn(items, 1),
                              ConnAt(items[1], "in", "In"), "In", Elem),
                         Edge(3, ItemOut(items, n),
                              ConnAt(items[n], "out", "Out"), MapExit,
                              <<"IN", "Out">>, "Out", Elem),
                         Edge(4, MapExit, <<"OUT", "Out">>, 4, NoConn, "Out",
                              Whole) })
            \cup (IF dyn
                  THEN { Edge(5, 1, NoConn, MapEntry, <<"", "dyn">>, "In", Elem) }
                  ELSE {}),
         maps |-> (1 :> OuterMap(np)) @@ PipeMaps(items)]

\* The outer array behind a connector of the nested SDFG.
OuterName(d) == IF d = "X" THEN "OX" ELSE "OY"

\* The arrays the nested SDFG reads from (writes to) the outer graph: the
\* arrays that are not transient and that a node with an out-edge (in-edge)
\* accesses in some state.
NestedReads(pipes, arrs) ==
    { d \in {"X", "Y"} :
        /\ ~arrs[d].transient
        /\ \E s \in 1..Len(pipes) : \E i \in 1..(Len(pipes[s]) - 1) :
               pipes[s][i] = d }
NestedWrites(pipes, arrs) ==
    { d \in {"X", "Y"} :
        /\ ~arrs[d].transient
        /\ \E s \in 1..Len(pipes) : \E i \in 2..Len(pipes[s]) :
               pipes[s][i] = d }

\* The state with the map around the nested SDFG (second pattern): every
\* array read enters through the map entry on the connector of its name,
\* every array written leaves through the map exit.
NestedOuterState(pipes, arrs, np, dyn) ==
    LET reads == NestedReads(pipes, arrs)
        writes == NestedWrites(pipes, arrs)
        k(d) == IF d = "X" THEN 0 ELSE 1
    IN  [nodes |->
            (MapEntry :> Node("entry", "", 1)) @@ (MapExit :> Node("exit", "", 1))
            @@ (NsdfgNode :> Node("nsdfg", "", 0))
            @@ (IF dyn THEN 1 :> Node("access", "In", 0) ELSE <<>>)
            @@ [n \in { 6 + k(d) : d \in reads } |->
                    Node("access", IF n = 6 THEN "OX" ELSE "OY", 0)]
            @@ [n \in { 8 + k(d) : d \in writes } |->
                    Node("access", IF n = 8 THEN "OX" ELSE "OY", 0)],
         edges |->
            { Edge(10 + k(d), 6 + k(d), NoConn, MapEntry,
                   <<"IN", OuterName(d)>>, OuterName(d), Whole) : d \in reads }
            \cup { Edge(20 + k(d), MapEntry, <<"OUT", OuterName(d)>>, NsdfgNode,
                        <<"", d>>, OuterName(d), Point) : d \in reads }
            \cup { Edge(30 + k(d), NsdfgNode, <<"", d>>, MapExit,
                        <<"IN", OuterName(d)>>, OuterName(d), Point) : d \in writes }
            \cup { Edge(40 + k(d), MapExit, <<"OUT", OuterName(d)>>, 8 + k(d),
                        NoConn, OuterName(d), Whole) : d \in writes }
            \cup (IF reads = {}
                  THEN { Edge(2, MapEntry, NoConn, NsdfgNode, NoConn, "", <<>>) }
                  ELSE {})
            \cup (IF writes = {}
                  THEN { Edge(3, NsdfgNode, NoConn, MapExit, NoConn, "", <<>>) }
                  ELSE {})
            \cup (IF dyn
                  THEN { Edge(5, 1, NoConn, MapEntry, <<"", "dyn">>, "In", Elem) }
                  ELSE {}),
         maps |-> (1 :> OuterMap(np))]

\* Another state of the SDFG, with one access node of X.
OtherState ==
    [nodes |-> (1 :> Node("access", "X", 0)), edges |-> {}, maps |-> <<>>]

----------------------------------------------------------------------------
(* The descriptors the checks draw their inputs from. *)

\* Tensors of rank 1 to 4: a leading dimension and equal other dimensions.
BatchShapes ==
    { [i \in 1..r |-> IF i = 1 THEN l ELSE d] :
        r \in 1..4, l \in 0..MaxBatch, d \in 1..MaxDim }

BatchDescs == { Desc(s) : s \in BatchShapes }

\* The call get_batchmm_opts(a, b, c).
CallBatchOpts ==
    /\ bmm_out = NotCalled
    /\ bmm_out' = get_batchmm_opts(bmm_in.a, bmm_in.b, bmm_in.c)
    /\ UNCHANGED bmm_in

BatchIdle ==
    /\ bmm_in = [a |-> Desc(<<1, 1>>), b |-> Desc(<<1, 1>>), c |-> NoArray]
    /\ bmm_out = NotCalled

\* The candidate: the graphs and arrays apply and can_be_applied work on.
World ==
    [expr_index |-> expr_index, graph |-> graph, other_states |-> other_states,
     sdfg_arrays |-> sdfg_arrays, nstates |-> nstates,
     nsdfg_arrays |-> nsdfg_arrays]

IdleWorld ==
    [expr_index |-> 0, graph |-> EmptyGraph, other_states |-> <<>>,
     sdfg_arrays |-> <<>>, nstates |-> <<>>, nsdfg_arrays |-> <<>>]

\* The candidate is w.
WorldIs(w) ==
    /\ expr_index = w.expr_index
    /\ graph = w.graph
    /\ other_states = w.other_states
    /\ sdfg_arrays = w.sdfg_arrays
    /\ nstates = w.nstates
    /\ nsdfg_arrays = w.nsdfg_arrays

FissionIdle ==
    /\ WorldIs(IdleWorld)
    /\ pc = "idle"
    /\ exc = ""
    /\ matched = IdleWorld

\* No generated SDFG is being run.
EvalIdle ==
    ev = [sdfg |-> NotExpanded, bufs |-> <<>>, order |-> <<1, 2, 3>>, done |-> 0]

\* FPGAGlobalToLocal is not at work.
FpgaIdle ==
    /\ fp_sdfgs = <<>>
    /\ fp_count = 0
    /\ fp_pc = "idle"
    /\ fp_before = <<>>

\* A node as the expansions read it, and the node of the states in which
\* no expansion is at work.
NodeOf(implementation, dtype, swap) ==
    [implementation |-> implementation, dtype |-> dtype, swap |-> swap]
PlainNode == NodeOf(NoName, "float32", FALSE)
Unselected == [name |-> "unselected", line |-> 0]
SameStorage == [n \in {"A", "B", "C"} |-> "Default"]

ExpandIdle ==
    /\ mm_node = PlainNode
    /\ storage = SameStorage
    /\ strategy = Unselected
    /\ xres = NotExpanded

\* The arrays and the edges of the node, as one value.
ParentGraph == [arrays |-> arrays, in_edges |-> in_edges, out_edges |-> out_edges]

MatMulIdle ==
    /\ arrays = [n \in {"A", "B", "C"} |-> Desc(<<1, 1>>)]
    /\ in_edges = <<>>
    /\ out_edges = <<>>
    /\ vres = "not called"
    /\ vres2 = "not called"
    /\ mm_before = ParentGraph
    /\ ExpandIdle

\* Matrices [m, k] and batched matrices [l, m, k].
MatShapes ==
    { <<m, k>> : m \in 1..MaxDim, k \in 1..MaxDim }
        \cup { <<l, m, k>> : l \in 0..MaxBatch, m \in 1..MaxDim, k \in 1..MaxDim }

MatDescs == { Desc(s) : s \in MatShapes }

\* The memlet subset on an array: all of it, or (sliced) one index of the
\* leading dimension of a rank-3 array, as inside a loop over the batch.
SubsetOf(desc, sliced) ==
    IF sliced /\ Len(desc.shape) = 3
    THEN [FromArray(desc) EXCEPT ![1] = <<0, 0, 1>>]
    ELSE FromArray(desc)

\* The in-edges, by connector: "_a" carries array A and "_b" array B.
InEdge(conn, arrs, sliced) ==
    LET name == IF conn = "_a" THEN "A" ELSE "B"
    IN  [dst_conn |-> conn,
         memlet |-> [data |-> name, subset |-> SubsetOf(arrs[name], sliced)]]

OutEdge(arrs, sliced) ==
    [src_conn |-> "_c",
     memlet |-> [data |-> "C", subset |-> SubsetOf(arrs["C"], sliced)]]

ConnSeqs == UNION { [1..n -> {"_a", "_b"}] : n \in 0..MaxIn }

\* The arrays of one plain and one batched multiplication.
PlainArrays == [n \in {"A", "B", "C"} |-> Desc(<<2, 2>>)]
BatchedArrays == [n \in {"A", "B", "C"} |-> Desc(<<2, 2, 2>>)]

\* A MatMul node in a state. The tests of the edge counts come first in
\* validate and read no descriptor, so every connection shape is tried on
\* the arrays of two multiplications, and every choice of arrays on the
\* connection shapes with two in-edges and one out-edge.
ValidateInit ==
    /\ \E arrs \in [{"A", "B", "C"} -> MatDescs], sliced \in BOOLEAN,
          conns \in ConnSeqs, nout \in 0..MaxOut :
          /\ \/ Len(conns) = 2 /\ nout = 1
             \/ arrs \in {PlainArrays, BatchedArrays} /\ ~sliced
          /\ arrays = arrs
          /\ in_edges = [i \in 1..Len(conns) |-> InEdge(conns[i], arrs, sliced)]
          /\ out_edges = [i \in 1..nout |-> OutEdge(arrs, sliced)]
    /\ vres = "not called"
    /\ vres2 = "not called"
    /\ mm_before = ParentGraph
    /\ ExpandIdle
    /\ BatchIdle
    /\ FissionIdle
    /\ EvalIdle
    /\ FpgaIdle

\* node.validate(sdfg, state).
Validate ==
    /\ vres = "not called"
    /\ vres' = validate(in_edges, out_edges, arrays)
    /\ in_edges' = ValidateLeaves(in_edges, out_edges).ins
    /\ out_edges' = ValidateLeaves(in_edges, out_edges).outs
    /\ UNCHANGED <<arrays, vres2, mm_node, storage, strategy, xres, mm_before>>

\* node.validate(sdfg, state), called once more on what the first call left.
ValidateAgain ==
    /\ vres # "not called"
    /\ vres2 = "not called"
    /\ vres2' = validate(in_edges, out_edges, arrays)
    /\ in_edges' = ValidateLeaves(in_edges, out_edges).ins
    /\ out_edges' = ValidateLeaves(in_edges, out_edges).outs
    /\ UNCHANGED <<arrays, vres, mm_node, storage, strategy, xres, mm_before>>

ValidateNext ==
    \/ Validate /\ UNCHANGED <<bmmvars, mfvars, evvars, fpvars>>
    \/ ValidateAgain /\ UNCHANGED <<bmmvars, mfvars, evvars, fpvars>>

SpecValidate == ValidateInit /\ [][ValidateNext]_vars

\* get_batchmm_opts is about to be called on three descriptors.
BatchInit ==
    /\ bmm_in \in [a : BatchDescs, b : BatchDescs, c : BatchDescs \cup {NoArray}]
    /\ bmm_out = NotCalled
    /\ MatMulIdle
    /\ FissionIdle
    /\ EvalIdle
    /\ FpgaIdle

BatchNext == CallBatchOpts /\ UNCHANGED <<mmvars, mfvars, evvars, fpvars>>

SpecBatch == BatchInit /\ [][BatchNext]_vars

\* The shape of an operand: rows and columns, after a leading batch
\* dimension unless l is None.
OperandShape(l, r, c) == IF l = None THEN <<r, c>> ELSE <<l, r, c>>
Leading == {None} \cup (0..MaxBatch)

\* The nodes to expand: no implementation set, or one of the three; the
\* swap flag matters to cuBLAS alone.
MainNodes ==
    { NodeOf(i, "float32", FALSE) : i \in {NoName, "pure", "MKL", "cuBLAS"} }
        \cup { NodeOf("cuBLAS", "float32", TRUE) }

\* Nodes without a dtype.
UntypedNodes == { NodeOf(i, NoName, FALSE) : i \in {"pure", "MKL", "cuBLAS"} }

\* All arrays in one storage, or B in another.
Storages == { SameStorage, [SameStorage EXCEPT !["B"] = "GPU_Global"] }

\* A MatMul node with an edge on "_a" and an edge on "_b", in either order,
\* and an edge from "_c": A is [la?, m, k], B is [lb?, k2, n], C is
\* [lc?, m, n]. The nodes without dtype and the arrays in different
\* storages are tried on the arrays of two multiplications.
ExpandInit ==
    /\ \E m \in 1..MaxDim, k \in 1..MaxDim, k2 \in 1..MaxDim, n \in 1..MaxDim,
          la \in Leading, lb \in Leading, lc \in Leading,
          sliced \in BOOLEAN, ab \in BOOLEAN,
          nd \in MainNodes \cup UntypedNodes, st \in Storages :
          \E arrs \in { [x \in {"A", "B", "C"} |->
                           Desc(CASE x = "A" -> OperandShape(la, m, k)
                                  [] x = "B" -> OperandShape(lb, k2, n)
                                  [] x = "C" -> OperandShape(lc, m, n))] } :
             /\ (nd \in UntypedNodes \/ st # SameStorage)
                    => (arrs \in {PlainArrays, BatchedArrays} /\ ~sliced)
             /\ st # SameStorage => nd.implementation = "pure"
             /\ arrays = arrs
             /\ in_edges = IF ab THEN << InEdge("_a", arrs, sliced),
                                        InEdge("_b", arrs, sliced) >>
                           ELSE << InEdge("_b", arrs, sliced),
                                   InEdge("_a", arrs, sliced) >>
             /\ out_edges = << OutEdge(arrs, sliced) >>
             /\ mm_node = nd
             /\ storage = st
    /\ strategy = Unselected
    /\ xres = NotExpanded
    /\ vres = "not called"
    /\ vres2 = "not called"
    /\ mm_before = ParentGraph
    /\ BatchIdle
    /\ FissionIdle
    /\ EvalIdle
    /\ FpgaIdle

\* The expansion class is chosen for the node.
SelectImplementation ==
    /\ strategy = Unselected
    /\ strategy' = Selected(mm_node.implementation)
    /\ UNCHANGED <<arrays, in_edges, out_edges, vres, vres2, mm_node, storage,
                   xres, mm_before>>

\* The expansion of the chosen class runs; it validates the node first.
Expand ==
    /\ strategy \notin {Unselected, NoClass}
    /\ xres = NotExpanded
    /\ xres' = expansion(strategy, mm_node, in_edges, out_edges, arrays, storage)
    /\ in_edges' = ValidateLeaves(in_edges, out_edges).ins
    /\ out_edges' = ValidateLeaves(in_edges, out_edges).outs
    /\ UNCHANGED <<arrays, vres, vres2, mm_node, storage, strategy, mm_before>>

ExpandNext ==
    \/ SelectImplementation /\ UNCHANGED <<bmmvars, mfvars, evvars, fpvars>>
    \/ Expand /\ UNCHANGED <<bmmvars, mfvars, evvars, fpvars>>

SpecExpand == ExpandInit /\ [][ExpandNext]_vars

\* A matrix of a shape with entries in -MaxVal..MaxVal that differ along
\* rows and columns.
Matrix(shape, seed) ==
    [i \in 0..(shape[1] - 1) |->
        [j \in 0..(shape[2] - 1) |->
            ((seed + 2 * i + j) % (2 * MaxVal + 1)) - MaxVal]]

\* The orders in which the three parameters of the map may nest.
NestOrders ==
    { o \in [1..3 -> 1..3] : \A p \in 1..3 : \E q \in 1..3 : o[q] = p }

\* The pure expansion of a MatMul node on arrays A (m, k), B (k, n) and
\* C (m, n), each memlet covering its array.
PureSDFG(m, k, n) ==
    LET arrs == [x \in {"A", "B", "C"} |->
                    Desc(CASE x = "A" -> <<m, k>>
                           [] x = "B" -> <<k, n>>
                           [] x = "C" -> <<m, n>>)]
    IN  ExpandMatMulPure(NodeOf("pure", "float32", FALSE),
                         << InEdge("_a", arrs, FALSE), InEdge("_b", arrs, FALSE) >>,
                         << OutEdge(arrs, FALSE) >>, arrs, SameStorage)

\* The SDFG generated for an m x k by k x n product is about to run on
\* concrete buffers; _c starts from the identity of the reduction.
EvalInit ==
    /\ \E m \in 2..MaxMat, k \in 2..MaxMat, n \in 2..MaxMat,
          seed_a \in 0..(2 * MaxVal), seed_b \in 0..(2 * MaxVal),
          order \in NestOrders :
          \E g \in { PureSDFG(m, k, n) } :
             ev = [sdfg |-> g,
                   bufs |-> [x \in {"_a", "_b", "_c"} |->
                               CASE x = "_a" -> Matrix(g.shapes["_a"], seed_a)
                                 [] x = "_b" -> Matrix(g.shapes["_b"], seed_b)
                                 [] x = "_c" -> Filled(g.shapes["_c"],
                                                       wcr_identity)],
                   order |-> order,
                   done |-> 0]
    /\ MatMulIdle
    /\ BatchIdle
    /\ FissionIdle
    /\ FpgaIdle

\* The next iteration of the map runs.
EvalStep ==
    /\ ev.sdfg.kind = "sdfg"
    /\ ev.done < Prod(ev.sdfg.map)
    /\ ev' = [ev EXCEPT
                 !.bufs = RunIteration(@, IterationAt(ev.sdfg.map, ev.order,
                                                      ev.done)),
                 !.done = @ + 1]

EvalNext == EvalStep /\ UNCHANGED <<bmmvars, mmvars, mfvars, fpvars>>

SpecEval == EvalInit /\ [][EvalNext]_vars

\* The descriptors tried: transient or not, in global FPGA memory or in
\* the default storage, of a constant size, of a size the SDFG has a
\* constant for, or of a size it has none for.
DataChoices ==
    { Data(t, st, sz) : t \in BOOLEAN, st \in {FPGA_Global, "Default"},
                        sz \in {Constant(4), Symbol("N"), Symbol("M")} }

\* An SDFG with arrays T and U and a nested SDFG with arrays n and t: n is
\* the array of a connector, bound to T, to U or to neither as
\* trace_nested_access reports it, and t is an array of the nested SDFG
\* alone.
FpgaInit ==
    /\ \E dT \in DataChoices, dU \in DataChoices, dt \in DataChoices,
          bound \in {"", "T", "U"}, free \in {FPGA_Global, "Default"},
          sharedT \in BOOLEAN, sharedU \in BOOLEAN, sharedt \in BOOLEAN :
          /\ sharedT => dT.transient
          /\ sharedU => dU.transient
          /\ sharedt => dt.transient
          /\ bound # "" => free = FPGA_Global
          /\ fp_sdfgs =
               << SDFG(<<"T", "U">>,
                       [x \in {"T", "U"} |-> IF x = "T" THEN dT ELSE dU],
                       [s \in {"N"} |-> 8],
                       { x \in {"T", "U"} : \/ x = "T" /\ sharedT
                                            \/ x = "U" /\ sharedU },
                       {"T", "U"},
                       [x \in {"T", "U"} |-> ""]),
                  SDFG(<<"n", "t">>,
                       [x \in {"n", "t"} |->
                           IF x = "t" THEN dt
                           ELSE CASE bound = "T" ->
                                       [dT EXCEPT !.transient = FALSE]
                                  [] bound = "U" ->
                                       [dU EXCEPT !.transient = FALSE]
                                  [] OTHER -> Data(FALSE, free, Constant(4))],
                       <<>>,
                       IF sharedt THEN {"t"} ELSE {},
                       {"n", "t"},
                       [x \in {"n", "t"} |-> IF x = "n" THEN bound ELSE ""]) >>
    /\ fp_count = 0
    /\ fp_pc = "matched"
    /\ fp_before = fp_sdfgs
    /\ MatMulIdle
    /\ BatchIdle
    /\ FissionIdle
    /\ EvalIdle

\* FPGAGlobalToLocal.apply(sdfg).
FpgaApply ==
    /\ fp_pc = "matched"
    /\ \E r \in {fpga_apply(fp_sdfgs)} :
           /\ fp_sdfgs' = r.sdfgs
           /\ fp_count' = r.count
    /\ fp_pc' = "applied"
    /\ UNCHANGED fp_before

FpgaNext == FpgaApply /\ UNCHANGED <<bmmvars, mmvars, mfvars, evvars>>

SpecFpga == FpgaInit /\ [][FpgaNext]_vars

Pipes(alphabet) == UNION { [1..n -> alphabet] : n \in 0..MaxItems }

\* The nested SDFG has one state or two.
NestedStateCounts == {1, 2}

\* Whether the map has a dynamic range input as well: tried on the maps of
\* one parameter whose arrays X and Y are both transient.
DynamicInputs(tX, tY, np) == IF tX /\ tY /\ np = 1 THEN BOOLEAN ELSE {FALSE}

\* A matched candidate of either pattern. In the second pattern X and Y play
\* the same part, so Y is transient only where X is.
FissionInit ==
    /\ \E tX \in BOOLEAN, tY \in BOOLEAN, np \in 1..MaxParams :
       \E dyn \in DynamicInputs(tX, tY, np) :
          \/ \E items \in Pipes({"t", "m", "X", "Y"}),
                outside \in BOOLEAN, other \in BOOLEAN :
                WorldIs([expr_index |-> 0,
                         graph |-> ScopeState(items, np, outside, dyn),
                         other_states |-> IF other THEN <<OtherState>> ELSE <<>>,
                         sdfg_arrays |-> ArraysOf(tX, tY),
                         nstates |-> <<>>,
                         nsdfg_arrays |-> <<>>])
          \/ /\ tY => tX
             /\ \E ns \in NestedStateCounts :
                \E pipes \in [1..ns -> Pipes({"t", "X", "Y"})] :
                    WorldIs([expr_index |-> 1,
                             graph |-> NestedOuterState(pipes, ArraysOf(tX, tY),
                                                        np, dyn),
                             other_states |-> <<>>,
                             sdfg_arrays |-> ArraysOf(FALSE, FALSE),
                             nstates |-> [i \in 1..ns |-> NestedState(pipes[i])],
                             nsdfg_arrays |-> ArraysOf(tX, tY)])
    /\ pc = "matched"
    /\ exc = ""
    /\ matched = World
    /\ BatchIdle
    /\ MatMulIdle
    /\ EvalIdle
    /\ FpgaIdle

\* The applicability test of the pattern-matching engine.
CanBeApplied ==
    /\ pc = "matched"
    /\ pc' = IF can_be_applied(World) THEN "accepted" ELSE "rejected"
    /\ UNCHANGED <<expr_index, graph, other_states, sdfg_arrays, nstates,
                   nsdfg_arrays, exc, matched>>

\* The transformation is applied to the accepted candidate.
Apply ==
    /\ pc = "accepted"
    /\ \E r \in {apply(World)} :
           /\ expr_index' = r.w.expr_index
           /\ graph' = r.w.graph
           /\ other_states' = r.w.other_states
           /\ sdfg_arrays' = r.w.sdfg_arrays
           /\ nstates' = r.w.nstates
           /\ nsdfg_arrays' = r.w.nsdfg_arrays
           /\ exc' = r.exc
           /\ pc' = IF r.exc = "" THEN "applied" ELSE "raised"
    /\ UNCHANGED matched

FissionNext ==
    \/ CanBeApplied /\ UNCHANGED <<bmmvars, mmvars, evvars, fpvars>>
    \/ Apply /\ UNCHANGED <<bmmvars, mmvars, evvars, fpvars>>

SpecFission == FissionInit /\ [][FissionNext]_vars

----------------------------------------------------------------------------
(* Claims about MapFission, checked under SpecFission. *)

\* can_be_applied has returned True for the candidate.
Accepted == pc \in {"accepted", "applied", "raised"}

\* The subgraphs can_be_applied inspected, and their components.
Inspected == Subgraphs(matched)
ComponentsOf(i) == _components(Inspected[i])

BorderArraysOf(i) ==
    _border_arrays(ComponentsOf(i), Inspected[i], source_nodes(Inspected[i]),
                   sink_nodes(Inspected[i]))

\* The arrays accessed elsewhere than in inspected subgraph i: outside the
\* scope in the state of the map and in the other states (first pattern),
\* in the other states of the nested SDFG (second pattern).
AccessedElsewhere(i) ==
    IF matched.expr_index = 0
    THEN AccessedOutside(matched.graph, Inspected[i].ns)
             \cup UNION { AccessedOutside(matched.other_states[k], {}) :
                             k \in 1..Len(matched.other_states) }
    ELSE UNION { AccessedOutside(matched.nstates[k], {}) :
                    k \in (1..Len(matched.nstates)) \ {i} }

\* C2: no accepted candidate, of either pattern, has a border array that an
\* access node elsewhere refers to.
C2_BorderArraysNotUsedElsewhere ==
    Accepted =>
        \A i \in 1..Len(Inspected) : BorderArraysOf(i) \cap AccessedElsewhere(i) = {}

\* apply has run to its end.
Applied == pc = "applied"

\* The arrays of the graph that owns the border arrays.
ParentArrays(w) == IF w.expr_index = 0 THEN w.sdfg_arrays ELSE w.nsdfg_arrays

\* The sizes of the range of the outer map.
MapSize == Size(OuterMapOf(matched).range)

\* C3: after apply the shape of every border array is the sizes of the
\* outer map followed by its shape before apply: the array has been
\* augmented once, also when several nested states have it at their border.
C3_AugmentedOnce ==
    Applied =>
        \A i \in 1..Len(Inspected) : \A a \in BorderArraysOf(i) :
            ParentArrays(World)[a].shape
                = MapSize \o ParentArrays(matched)[a].shape

\* The state an inspected subgraph lies in, as matched and as it is now.
StateThen(i) ==
    IF matched.expr_index = 0 THEN matched.graph ELSE matched.nstates[i]
StateNow(i) == IF expr_index = 0 THEN graph ELSE nstates[i]

\* The entry nodes apply has added to the state of subgraph i.
NewEntries(i) ==
    { n \in NodeIds(StateNow(i)) \ NodeIds(StateThen(i)) :
        IsEntry(StateNow(i), n) }

\* The map of entry node me repeats the outer map.
SameMap(G, me) ==
    LET m == G.maps[G.nodes[me].mapid]
        o == OuterMapOf(matched)
    IN  /\ m.range = o.range
        /\ m.params = o.params
        /\ m.schedule = o.schedule
        /\ m.unroll = o.unroll

\* Component c lies in the scope of the entry node me, and in no scope
\* around that: what enters it comes from me, what leaves it goes to the
\* exit of me.
Encloses(G, me, c) ==
    /\ ScopeOf(G, c[1]) = me
    /\ ScopeOf(G, me) = 0
    /\ \A e \in InEdgesOf(G, c[1]) : e.src = me
    /\ \A e \in OutEdgesOf(G, c[2]) : e.dst = ExitOf(G, me)

\* C4: when apply has run to its end on a candidate with N >= 2 components
\* in a subgraph, the state holds exactly N new map scopes; each component
\* lies in one of them, no two in the same; each new map has the range,
\* parameters, schedule and unroll of the outer map; and the outer entry
\* and exit are gone.
C4_OneScopePerComponent ==
    Applied =>
        /\ \A i \in 1..Len(Inspected) :
              Len(ComponentsOf(i)) >= 2 =>
                /\ Cardinality(NewEntries(i)) = Len(ComponentsOf(i))
                /\ \A me \in NewEntries(i) : SameMap(StateNow(i), me)
                /\ \A k \in 1..Len(ComponentsOf(i)) :
                      \E me \in NewEntries(i) :
                          /\ Encloses(StateNow(i), me, ComponentsOf(i)[k])
                          /\ \A l \in 1..Len(ComponentsOf(i)) \ {k} :
                                ~Encloses(StateNow(i), me, ComponentsOf(i)[l])
        /\ MapEntry \notin NodeIds(graph)
        /\ MapExit \notin NodeIds(graph)

\* A map of two parameters around three components, one of them a nested
\* scope, has been fissioned.
C4_Witness ==
    /\ Applied
    /\ Len(OuterMapOf(matched).params) = 2
    /\ \E i \in 1..Len(Inspected) :
          /\ Len(ComponentsOf(i)) = 3
          /\ \E k \in 1..3 : IsEntry(Inspected[i].g, ComponentsOf(i)[k][1])

\* C5: apply runs to its end on every candidate can_be_applied accepts; no
\* lookup it makes fails.
C5_ApplyCompletes == Accepted => pc # "raised"

----------------------------------------------------------------------------
(* Claims about get_batchmm_opts, checked under SpecBatch. *)

BatchCalled == bmm_out # NotCalled

\* The rank-3 tensors among the arguments a, b and c.
Rank3Args ==
    { t \in {bmm_in.a, bmm_in.b, bmm_in.c} : t # NoArray /\ Len(t.shape) = 3 }

RanksAtMost3 ==
    \A t \in {bmm_in.a, bmm_in.b, bmm_in.c} : t = NoArray \/ Len(t.shape) <= 3

\* C6: whenever both operands a and b have rank <= 2 and the output c is
\* absent or has rank <= 3, get_batchmm_opts returns the empty dictionary.
C6_EmptyWhenUnbatched ==
    (/\ BatchCalled
     /\ Len(bmm_in.a.shape) <= 2
     /\ Len(bmm_in.b.shape) <= 2
     /\ RanksAtMost3)
        => bmm_out = Return({})

\* A call with two matrices and a rank-3 output has returned {}.
C6_Witness ==
    /\ BatchCalled
    /\ Len(bmm_in.a.shape) = 2
    /\ Len(bmm_in.b.shape) = 2
    /\ bmm_in.c # NoArray
    /\ Len(bmm_in.c.shape) = 3
    /\ bmm_out = Return({})

\* C7: when a or b has rank 3 and no tensor has rank > 3, the call either
\* raises or returns a batch count 'b' equal to the leading dimension of
\* every rank-3 tensor among a, b, c; and it raises whenever two rank-3
\* tensors differ in their leading dimension (a leading dimension of 0
\* included).
C7_BatchAgreesOrRaises ==
    (/\ BatchCalled
     /\ (Len(bmm_in.a.shape) = 3 \/ Len(bmm_in.b.shape) = 3)
     /\ RanksAtMost3)
        => /\ \/ bmm_out = Raise("ValueError")
              \/ /\ ~bmm_out.raised
                 /\ \E kv \in bmm_out.value : kv[1] = "b"
                 /\ \A t \in Rank3Args : t.shape[1] = Get(bmm_out.value, "b")
           /\ (\E t1, t2 \in Rank3Args : t1.shape[1] # t2.shape[1])
                 => bmm_out = Raise("ValueError")

----------------------------------------------------------------------------
(* Claims about MatMul.validate, checked under SpecValidate. *)

Validated == vres # "not called"

\* Exactly two in-edges, one on "_a" and one on "_b", and one out-edge.
WellConnected ==
    /\ Len(in_edges) = 2
    /\ { in_edges[i].dst_conn : i \in 1..Len(in_edges) } = {"_a", "_b"}
    /\ Len(out_edges) = 1

\* The squeezed sizes of the memlets on "_a", on "_b" and on the out-edge.
SizeA == InputSize(in_edges, "_a")
SizeB == InputSize(in_edges, "_b")
SizeC == Size(Squeeze(out_edges[1].memlet.subset))

\* What batch detection answers for the node's arrays, as validate asks it.
Detection ==
    get_batchmm_opts(arrays[in_edges[1].memlet.data],
                     arrays[in_edges[2].memlet.data],
                     arrays[out_edges[1].memlet.data])

BatchDetected == ~Detection.raised /\ Detection.value # {}

\* C8: validate succeeds only on a well-connected node, and on every other
\* connection shape it fails with the validation error, ValueError.
C8_RejectsByValueError ==
    Validated =>
        /\ vres = "pass" => WellConnected
        /\ ~WellConnected => vres = "ValueError"

\* The squeezed ranks validate allows for an input.
AllowedRanks == IF BatchDetected THEN {2, 3} ELSE {2}

\* C9: a well-connected node one of whose inputs has a squeezed rank outside
\* the allowed set ({2} without a batch, {2, 3} with one) is rejected with
\* ValueError: it neither passes nor fails with another error.
C9_BadRankIsValueError ==
    (/\ Validated
     /\ WellConnected
     /\ (Len(SizeA) \notin AllowedRanks \/ Len(SizeB) \notin AllowedRanks))
        => vres = "ValueError"

\* The inputs have rows and columns: rows-of-a and cols-of-b exist.
HasRowsAndCols == WellConnected /\ Len(SizeA) >= 2 /\ Len(SizeB) >= 2

\* [batch?, rows-of-a, cols-of-b].
ExpectedOut ==
    IF BatchDetected
    THEN <<Get(Detection.value, "b"), Neg(SizeA, 2), Neg(SizeB, 1)>>
    ELSE <<Neg(SizeA, 2), Neg(SizeB, 1)>>

C10_WitnessReject ==
    /\ vres = "ValueError"
    /\ HasRowsAndCols
    /\ ~Detection.raised
    /\ Neg(SizeA, 1) = Neg(SizeB, 2)
    /\ Len(SizeC) \in {2, 3}
    /\ SizeC # ExpectedOut

----------------------------------------------------------------------------
(* Claims about the expansions of MatMul, checked under SpecExpand. *)

\* An expansion has run on the node.
Expanded == xres # NotExpanded

\* The edge on a connector, as it was before the expansion.
EdgeOn(conn) ==
    mm_before.in_edges[CHOOSE i \in 1..2 : mm_before.in_edges[i].dst_conn = conn]

\* The sizes of the memlet subsets on "_a" and on "_b", dimension by
\* dimension.
SubsetSizeA == Size(EdgeOn("_a").memlet.subset)
SubsetSizeB == Size(EdgeOn("_b").memlet.subset)

\* The contracted dimension of the two inputs disagrees: the last dimension
\* of the subset on "_a" is not the second-to-last of the subset on "_b".
InnerMismatch == Neg(SubsetSizeA, 1) # Neg(SubsetSizeB, 2)

\* C11: whenever the contracted dimension of the inputs disagrees, the
\* expansion that ran (pure, MKL or cuBLAS) has ended with an error and the
\* arrays, edges and memlets of the parent graph are what they were before.
C11_MismatchFailsUntouched ==
    (Expanded /\ InnerMismatch) => (xres.exc # "" /\ ParentGraph = mm_before)

\* The node as it was passes validation.
PassesValidation ==
    validate(mm_before.in_edges, mm_before.out_edges, mm_before.arrays) = "pass"

\* The pure expansion has run on a node with a dtype whose arrays share
\* one storage.
PureExpanded ==
    /\ Expanded
    /\ strategy.name = "ExpandMatMulPure"
    /\ mm_node.dtype # NoName
    /\ storage = SameStorage

\* The inputs are (m, k) and (k, n), or (b, m, k) and (b, k, n).
PlainInputs ==
    /\ Len(SubsetSizeA) = 2
    /\ Len(SubsetSizeB) = 2
    /\ SubsetSizeA[2] = SubsetSizeB[1]
BatchedInputs ==
    /\ Len(SubsetSizeA) = 3
    /\ Len(SubsetSizeB) = 3
    /\ SubsetSizeA[1] = SubsetSizeB[1]
    /\ SubsetSizeA[3] = SubsetSizeB[2]

\* C12: for a node that passes validation the pure expansion produces an
\* array _c of shape (m, n) for inputs (m, k) and (k, n), and of shape
\* (b, m, n) for batched inputs (b, m, k) and (b, k, n).
C12_PureOutputShape ==
    (PureExpanded /\ PassesValidation) =>
        /\ PlainInputs =>
              /\ xres.kind = "sdfg"
              /\ xres.shapes["_c"] = <<SubsetSizeA[1], SubsetSizeB[2]>>
        /\ BatchedInputs =>
              /\ xres.kind = "sdfg"
              /\ xres.shapes["_c"]
                    = <<SubsetSizeA[1], SubsetSizeA[2], SubsetSizeB[3]>>

----------------------------------------------------------------------------
(* Further claims about MatMul.validate, checked under SpecValidate. *)

ValidatedTwice == vres2 # "not called"

\* A squeeze removes a dimension of the memlet on some in-edge.
SqueezeBites ==
    \E i \in 1..Len(in_edges) :
        Squeeze(in_edges[i].memlet.subset) # in_edges[i].memlet.subset

----------------------------------------------------------------------------
(* Claims about the SDFG of the pure expansion, checked under SpecEval. *)

\* The sum of a[i][l] * b[l][j] over l below k.
RECURSIVE DotBelow(_, _, _, _, _)
DotBelow(a, b, i, j, k) ==
    IF k = 0 THEN 0
    ELSE DotBelow(a, b, i, j, k - 1) + a[i][k - 1] * b[k - 1][j]

\* The run of the generated SDFG has finished.
EvalDone == ev.sdfg.kind = "sdfg" /\ ev.done = Prod(ev.sdfg.map)

\* C14: the SDFG of the pure expansion computes the matrix product: __i0
\* ranges over the rows of _a, __i1 over the columns of _b, __i2 over the
\* contracted dimension, and after the run every element of _c is the sum,
\* starting from 0, of the products along the contracted dimension.
C14_PureComputesProduct ==
    ev.sdfg.kind = "sdfg" =>
        /\ ev.sdfg.map = << ev.sdfg.shapes["_a"][1], ev.sdfg.shapes["_b"][2],
                            ev.sdfg.shapes["_a"][2] >>
        /\ ev.sdfg.shapes["_b"][1] = ev.sdfg.shapes["_a"][2]
        /\ EvalDone =>
              \A i \in 0..(ev.sdfg.shapes["_a"][1] - 1),
                 j \in 0..(ev.sdfg.shapes["_b"][2] - 1) :
                 ev.bufs["_c"][i][j] =
                     DotBelow(ev.bufs["_a"], ev.bufs["_b"], i, j,
                              ev.sdfg.shapes["_a"][2])

\* A finished run on matrices that are not square, with the contracted
\* dimension not the innermost parameter, and a product that is not zero.
C14_Witness ==
    /\ EvalDone
    /\ ev.sdfg.shapes["_a"][1] # ev.sdfg.shapes["_a"][2]
    /\ ev.sdfg.shapes["_b"][1] # ev.sdfg.shapes["_b"][2]
    /\ ev.order[3] # 3
    /\ ev.bufs["_c"][0][1] # 0
    /\ ev.bufs["_c"][0][1] # ev.bufs["_c"][1][0]

----------------------------------------------------------------------------
(* Claims about FPGAGlobalToLocal.apply, checked under SpecFpga. *)

FpgaApplied == fp_pc = "applied"

\* The arrays of the SDFG and of its nested SDFG.
FpgaArrays ==
    { <<i, name>> : i \in {1, 2}, name \in {"T", "U", "n", "t"} } \cap
    { <<1, "T">>, <<1, "U">>, <<2, "n">>, <<2, "t">> }

\* The descriptor before and after apply.
DescBefore(x) == fp_before[x[1]].arrays[x[2]]
DescAfter(x) == fp_sdfgs[x[1]].arrays[x[2]]

\* The descriptor was transient, not shared, in FPGA_Global and of a size
\* that resolves to a constant when apply was called.
Qualifying(x) ==
    /\ DescBefore(x).transient
    /\ x[2] \notin fp_before[x[1]].shared
    /\ DescBefore(x).storage = FPGA_Global
    /\ resolve_symbol_to_constant(DescBefore(x).total_size, fp_before[1]) # None

\* apply moved the descriptor from FPGA_Global to FPGA_Local.
Moved(x) ==
    /\ DescBefore(x).storage = FPGA_Global
    /\ DescAfter(x).storage = FPGA_Local

\* The descriptor belongs to an access node of the nested SDFG that refers
\* to a qualifying container of the SDFG.
Follows(x) ==
    /\ x[1] = 2
    /\ x[2] \in fp_before[2].nodes
    /\ fp_before[2].outer[x[2]] # ""
    /\ Qualifying(<<1, fp_before[2].outer[x[2]]>>)

CountIsQualifying ==
    fp_count = Cardinality({ x \in FpgaArrays : Qualifying(x) })

Skeleton(sd) ==
    [sd EXCEPT !.arrays = [x \in DOMAIN @ |-> [@[x] EXCEPT !.storage = ""]]]

\* apply left everything but storage classes alone, and changed storage
\* classes only from FPGA_Global to FPGA_Local.
OnlyStorageMoves ==
    /\ \A i \in {1, 2} : Skeleton(fp_sdfgs[i]) = Skeleton(fp_before[i])
    /\ \A x \in FpgaArrays :
          DescAfter(x).storage # DescBefore(x).storage => Moved(x)

----------------------------------------------------------------------------
(* Claims about the choice of an expansion, checked under SpecExpand. *)

\* The expansion class has been chosen for the node.
Chosen == strategy # Unselected

\* C17: a node without an implementation falls back to 'pure', the default
\* implementation of the operator, and each of the names 'pure', 'MKL' and
\* 'cuBLAS' resolves to one expansion class.
C17_FallsBackToPure ==
    Chosen =>
        /\ mm_node.implementation = NoName
              => strategy = implementations["pure"]
        /\ mm_node.implementation # NoName
              => /\ strategy = implementations[mm_node.implementation]
                 /\ strategy.name =
                        CASE mm_node.implementation = "pure" -> "ExpandMatMulPure"
                          [] mm_node.implementation = "MKL" -> "ExpandMatMulMKL"
                          [] mm_node.implementation = "cuBLAS" -> "ExpandMatMulCuBLAS"

\* The part of C17 about named implementations.
NamedResolves ==
    (Chosen /\ mm_node.implementation # NoName)
        => strategy = implementations[mm_node.implementation]

\* A node without an implementation got no class.
UnnamedGotNone ==
    Chosen /\ mm_node.implementation = NoName /\ strategy = NoClass

\* An expansion to a native call has produced its tasklet.
VendorCall ==
    /\ strategy.name \in {"ExpandMatMulMKL", "ExpandMatMulCuBLAS"}
    /\ xres.kind = "tasklet"

\* What get_batchmm_opts finds for the arrays connected to the node.
BatchOfNode ==
    get_batchmm_opts(arrays[EdgeOn("_a").memlet.data],
                     arrays[EdgeOn("_b").memlet.data],
                     arrays[mm_before.out_edges[1].memlet.data])
NodeBatchDetected == ~BatchOfNode.raised /\ BatchOfNode.value # {}

\* The call is the strided-batched one and carries the strides and the
\* batch count found for the node, the strides of a and b swapped with the
\* operands.
HonorsBatch ==
    /\ xres.call.batched
    /\ xres.call.batch = Get(BatchOfNode.value, "b")
    /\ xres.call.strides =
          IF mm_node.swap
          THEN << Get(BatchOfNode.value, "sb"), Get(BatchOfNode.value, "sa"),
                  Get(BatchOfNode.value, "sc") >>
          ELSE << Get(BatchOfNode.value, "sa"), Get(BatchOfNode.value, "sb"),
                  Get(BatchOfNode.value, "sc") >>
    /\ xres.call.x = (IF mm_node.swap THEN "_b" ELSE "_a")
    /\ xres.call.y = (IF mm_node.swap THEN "_a" ELSE "_b")

\* C18: the MKL and the cuBLAS expansion generate the strided-batched call
\* with the strides and the batch count whenever get_batchmm_opts detects
\* a batch for the arrays of the node, and the plain gemm call whenever it
\* detects none; with the swap flag the strides of a and b are swapped
\* together with the operands.
C18_VendorsHonorBatch ==
    VendorCall =>
        /\ NodeBatchDetected => HonorsBatch
        /\ ~NodeBatchDetected => ~xres.call.batched

\* The part of C18 about cuBLAS.
CuBLASHonorsBatch ==
    (VendorCall /\ strategy.name = "ExpandMatMulCuBLAS") =>
        /\ NodeBatchDetected => HonorsBatch
        /\ ~NodeBatchDetected => ~xres.call.batched

\* cuBLAS calls, batched with swapped operands and plain.
CuBLASBatchedSwapped ==
    /\ VendorCall
    /\ strategy.name = "ExpandMatMulCuBLAS"
    /\ NodeBatchDetected
    /\ mm_node.swap
    /\ xres.call.strides[1] # xres.call.strides[2]
CuBLASPlain ==
    VendorCall /\ strategy.name = "ExpandMatMulCuBLAS" /\ ~NodeBatchDetected

\* The part of C18 about MKL without a batch.
MKLPlain ==
    (VendorCall /\ strategy.name = "ExpandMatMulMKL" /\ ~NodeBatchDetected)
        => ~xres.call.batched

\* The MKL expansion made a plain call for a batched product.
MKLDropsBatch ==
    /\ VendorCall
    /\ strategy.name = "ExpandMatMulMKL"
    /\ arrays = BatchedArrays
    /\ NodeBatchDetected
    /\ ~xres.call.batched

----------------------------------------------------------------------------
(* A further claim about MapFission.apply, checked under SpecFission. *)

\* The access nodes of border arrays in inspected subgraph i, as they are
\* after apply.
BorderNodes(i) ==
    { n \in Inspected[i].ns \cap NodeIds(StateNow(i)) :
        /\ IsAccess(StateNow(i), n)
        /\ StateNow(i).nodes[n].data \in BorderArraysOf(i) }

\* The edges on the memlet trees of the edges at node n.
TreeEdgesAt(G, n) == UNION { memlet_tree(G, x) : x \in AllEdgesOf(G, n) }

\* C19: after apply every memlet on the memlet tree of an access node of a
\* border array has as many dimensions as the augmented shape of that
\* array: the ranges of the outer parameters have been prepended to it
\* once, not zero times and not twice.
C19_PrependedOnce ==
    Applied =>
        \A i \in 1..Len(Inspected) : \A n \in BorderNodes(i) :
            \A e \in TreeEdgesAt(StateNow(i), n) :
                Len(e.subset) =
                    Len(ParentArrays(World)[StateNow(i).nodes[n].data].shape)

\* Every border array has been augmented once (the body of C3).
AugmentedOnce ==
    \A i \in 1..Len(Inspected) : \A a \in BorderArraysOf(i) :
        ParentArrays(World)[a].shape = MapSize \o ParentArrays(matched)[a].shape

\* C19 where the border arrays have been augmented once.
PrependedOnceWhereAugmentedOnce ==
    (Applied /\ AugmentedOnce) =>
        \A i \in 1..Len(Inspected) : \A n \in BorderNodes(i) :
            \A e \in TreeEdgesAt(StateNow(i), n) :
                Len(e.subset) =
                    Len(ParentArrays(World)[StateNow(i).nodes[n].data].shape)

----------------------------------------------------------------------------
(* A claim about the order of the in-edges, checked under SpecValidate. *)

\* The two in-edges in the other order.
Swapped(ins) == << ins[2], ins[1] >>

\* What validate answers when the state returns the in-edges in the other
\* order.
OtherOrder == validate(Swapped(in_edges), out_edges, arrays)

\* C20: validate passes, or raises, the same way for both orders in which
\* the state may return the two in-edges of the node.
C20_OrderIndependent ==
    (Validated /\ Len(in_edges) = 2) => vres = OtherOrder

\* C20 for passing against raising alone, whatever the exception.
SamePassOrRaise ==
    (Validated /\ Len(in_edges) = 2) => ((vres = "pass") <=> (OtherOrder = "pass"))

\* C20 where no array has a dimension of size 0.
NoEmptyDimension ==
    \A x \in DOMAIN arrays : \A d \in 1..Len(arrays[x].shape) :
        arrays[x].shape[d] # 0
OrderIndependentWhereNotEmpty ==
    (Validated /\ Len(in_edges) = 2 /\ NoEmptyDimension) => vres = OtherOrder
====
